---- MODULE Spec2Model ----
(***************************************************************************)
(* go-term: the interactive line editor of main.go and the Terminal type   *)
(* of terminal.go (history store, reverse search, completion).             *)
(*                                                                         *)
(* Strings are sequences of byte values (Go strings are byte sequences);   *)
(* only ASCII bytes 0..127 are drawn, so strings.ToLower and               *)
(* strings.Fields are their ASCII forms.                                   *)
(***************************************************************************)
EXTENDS Integers, Sequences, FiniteSets, TLC

VARIABLES
    cmdBuffer,          \* main: var cmdBuffer strings.Builder
    ch,                 \* main: the byte last returned by term.ReadChar()
    pc,                 \* main: where the loop is waiting
    history,            \* Terminal.history
    historyIndex,       \* Terminal.historyIndex
    searchMode,         \* Terminal.searchMode
    searchQuery,        \* Terminal.searchQuery
    searchResults,      \* Terminal.searchResults
    searchIndex,        \* Terminal.searchIndex
    currentSuggestions, \* Terminal.currentSuggestions
    selectedIndex,      \* Terminal.selectedIndex
    currentSuggestion,  \* Terminal.currentSuggestion
    disk,               \* the file ~/.go_term_history: [state, data]
    env,                \* what the operating system answers (PATH, cwd, writes)
    keys,               \* the bytes the terminal device delivers in this run
    loaded,             \* the history as NewTerminal's loadHistory left it
    nread,              \* the bytes read from the terminal so far
    calls,              \* the calls made by the last step, in order
    obs,                \* what an observer of main's reads has noted
    proc                \* the process: main's place outside the loop, the
                        \* signal listener, the signal channel, the handle

vars == <<cmdBuffer, ch, pc, history, historyIndex, searchMode, searchQuery,
          searchResults, searchIndex, currentSuggestions, selectedIndex,
          currentSuggestion, disk, env, keys, loaded, nread, calls, obs, proc>>

\* the variables of the session, which the shutdown steps leave alone
sessionVars == <<cmdBuffer, ch, pc, history, historyIndex, searchMode,
                 searchQuery, searchResults, searchIndex, currentSuggestions,
                 selectedIndex, currentSuggestion, disk, env, keys, loaded,
                 nread, calls, obs>>

termVars == <<history, historyIndex, searchMode, searchQuery, searchResults,
              searchIndex, currentSuggestions, selectedIndex, currentSuggestion>>

(***************************************************************************)
(* Bounds of the model.                                                    *)
(***************************************************************************)
\* bytes read from the terminal in one session
MaxBytes == 6
\* calls that change the history or the match list in one harness run
MaxCalls == 3
\* termination signals delivered to the process in one run
MaxSignals == 2

(***************************************************************************)
(* Program constants.                                                      *)
(***************************************************************************)
\* AddToHistory: "Trim history to last 1000 commands"
HistoryCap == 1000
\* GetCompletions: at most 3 history items
HistLimit == 3
\* GetCompletions: at most 3 commands beside history items
CmdLimitWithHist == 3
\* GetCompletions: at most 6 commands alone
CmdLimitAlone == 6

(***************************************************************************)
(* Bytes.                                                                  *)
(***************************************************************************)
NL == 10
CR == 13
TAB == 9
BS == 8
DEL == 127
ESC == 27
CTRLR == 18
SP == 32

Printable(b) == b >= 32 /\ b < 127

(***************************************************************************)
(* strings package.                                                        *)
(***************************************************************************)
ToLower(s) == [i \in 1..Len(s) |-> IF s[i] \in 65..90 THEN s[i] + 32 ELSE s[i]]

HasPrefix(s, p) == Len(p) <= Len(s) /\ SubSeq(s, 1, Len(p)) = p

HasSuffix(s, p) == Len(p) <= Len(s) /\ SubSeq(s, Len(s) - Len(p) + 1, Len(s)) = p

Contains(s, sub) ==
    \E i \in 0..(Len(s) - Len(sub)) : SubSeq(s, i + 1, i + Len(sub)) = sub

AsciiSpace == {9, 10, 11, 12, 13, 32}

\* strings.Fields: the maximal runs of non-space bytes, in order
RECURSIVE FieldsFrom(_, _, _, _)
FieldsFrom(s, i, cur, acc) ==
    IF i > Len(s)
    THEN IF cur = <<>> THEN acc ELSE Append(acc, cur)
    ELSE IF s[i] \in AsciiSpace
         THEN FieldsFrom(s, i + 1, <<>>, IF cur = <<>> THEN acc ELSE Append(acc, cur))
         ELSE FieldsFrom(s, i + 1, Append(cur, s[i]), acc)

Fields(s) == FieldsFrom(s, 1, <<>>, <<>>)

\* strings.Split(s[lo..hi], "\n"): the segments between newlines, empty ones
\* kept; Split of the empty string is one empty segment
RECURSIVE SplitRange(_, _, _)
SplitRange(s, lo, hi) ==
    IF lo > hi THEN << <<>> >>
    ELSE IF lo = hi
         THEN IF s[lo] = NL THEN << <<>>, <<>> >> ELSE << <<s[lo]>> >>
         ELSE LET mid == (lo + hi) \div 2
                  l == SplitRange(s, lo, mid)
                  r == SplitRange(s, mid + 1, hi)
              IN  SubSeq(l, 1, Len(l) - 1)
                    \o << l[Len(l)] \o r[1] >>
                    \o SubSeq(r, 2, Len(r))

Split(s) == SplitRange(s, 1, Len(s))

\* strings.Join(h[lo..hi], "\n")
RECURSIVE JoinRange(_, _, _)
JoinRange(h, lo, hi) ==
    IF lo > hi THEN <<>>
    ELSE IF lo = hi THEN h[lo]
         ELSE LET mid == (lo + hi) \div 2
              IN  JoinRange(h, lo, mid) \o <<NL>> \o JoinRange(h, mid + 1, hi)

\* a variant that joins the entries with no separator
RECURSIVE ConcatRange(_, _, _)
ConcatRange(h, lo, hi) ==
    IF lo > hi THEN <<>>
    ELSE IF lo = hi THEN h[lo]
    ELSE LET mid == (lo + hi) \div 2
         IN  ConcatRange(h, lo, mid) \o ConcatRange(h, mid + 1, hi)

JoinNoSeparator(h) == ConcatRange(h, 1, Len(h))


Join(h) == JoinRange(h, 1, Len(h))

(***************************************************************************)
(* History store (terminal.go).                                            *)
(***************************************************************************)
\* os.WriteFile(t.historyFile, data, 0600): the file after the call
WriteFile(d, e, data) ==
    IF e.writable THEN [state |-> "file", data |-> data] ELSE d

\* loadHistory: [history, disk, err] from the file found at startup
loadHistory(d, e) ==
    IF e.home = <<>> THEN [history |-> <<>>, disk |-> d, err |-> TRUE]
    ELSE IF d.state = "missing"
    THEN [history |-> <<>>, disk |-> WriteFile(d, e, <<>>), err |-> ~e.writable]
    ELSE IF d.state = "unreadable"
         THEN [history |-> <<>>, disk |-> d, err |-> TRUE]
         ELSE [history |-> SelectSeq(Split(d.data), LAMBDA l : l # <<>>),
               disk |-> d, err |-> FALSE]

\* saveHistory: the file after the save, and whether the write failed
saveHistory(h, d, e) ==
    IF e.home = <<>> THEN [disk |-> d, err |-> TRUE]
    ELSE [disk |-> WriteFile(d, e, Join(h)), err |-> ~e.writable]

\* AddToHistory, first part: is cmd dropped (empty, or equal to the last entry)
AddRejects(h, cmd) ==
    cmd = <<>> \/ (Len(h) > 0 /\ h[Len(h)] = cmd)

\* AddToHistory, the added and trimmed list
AddTrim(h, cmd) ==
    LET a == Append(h, cmd)
    IN  IF Len(a) > HistoryCap
        THEN SubSeq(a, Len(a) - HistoryCap + 1, Len(a))
        ELSE a

\* a variant that takes the command back when the save fails
AddToHistoryRollback(h, d, e, cmd) ==
    IF AddRejects(h, cmd)
    THEN [history |-> h, disk |-> d, err |-> FALSE]
    ELSE LET s == saveHistory(AddTrim(h, cmd), d, e)
         IN  [history |-> IF s.err THEN h ELSE AddTrim(h, cmd),
              disk |-> s.disk, err |-> s.err]

\* AddToHistory: [history, disk, err]
AddToHistory(h, d, e, cmd) ==
    IF AddRejects(h, cmd)
    THEN [history |-> h, disk |-> d, err |-> FALSE]
    ELSE LET h2 == AddTrim(h, cmd)
             s == saveHistory(h2, d, e)
         IN  [history |-> h2, disk |-> s.disk, err |-> s.err]

\* a variant that wraps from the oldest entry to the newest
GetPreviousHistoryWrap(h, idx) ==
    IF Len(h) = 0 THEN [ret |-> <<>>, idx |-> idx]
    ELSE LET i == IF idx <= 0 THEN Len(h) - 1 ELSE idx - 1
         IN  [ret |-> h[i + 1], idx |-> i]

\* GetPreviousHistory: [ret, idx]
GetPreviousHistory(h, idx) ==
    IF Len(h) = 0 THEN [ret |-> <<>>, idx |-> idx]
    ELSE LET i == IF idx = -1 THEN Len(h) - 1
                  ELSE IF idx > 0 THEN idx - 1 ELSE idx
         IN  [ret |-> h[i + 1], idx |-> i]

\* a variant that stays on the newest entry instead of leaving navigation
GetNextHistoryStay(h, idx) ==
    IF idx = -1 \/ Len(h) = 0 THEN [ret |-> <<>>, idx |-> idx]
    ELSE IF idx < Len(h) - 1
         THEN [ret |-> h[idx + 2], idx |-> idx + 1]
         ELSE [ret |-> h[idx + 1], idx |-> idx]

\* a variant whose bound test is off by one: it steps past the newest entry
GetNextHistoryPast(h, idx) ==
    IF idx = -1 \/ Len(h) = 0 THEN [ret |-> <<>>, idx |-> idx]
    ELSE IF idx < Len(h)
         THEN [ret |-> IF idx + 2 <= Len(h) THEN h[idx + 2] ELSE <<>>,
               idx |-> idx + 1]
         ELSE [ret |-> <<>>, idx |-> -1]

\* GetNextHistory: [ret, idx]
GetNextHistory(h, idx) ==
    IF idx = -1 \/ Len(h) = 0 THEN [ret |-> <<>>, idx |-> idx]
    ELSE IF idx < Len(h) - 1
         THEN [ret |-> h[idx + 2], idx |-> idx + 1]
         ELSE [ret |-> <<>>, idx |-> -1]

\* ResetHistoryIndex
ResetHistoryIndex == -1

(***************************************************************************)
(* History search (terminal.go).                                           *)
(***************************************************************************)
Reverse(s) == [i \in 1..Len(s) |-> s[Len(s) + 1 - i]]

\* a variant that lists the matching entries oldest first
SearchMatchesOldestFirst(h, query) ==
    SelectSeq(h, LAMBDA c : Contains(ToLower(c), ToLower(query)))

\* the loop of UpdateHistorySearch: the matching entries, newest first
SearchMatches(h, query) ==
    Reverse(SelectSeq(h, LAMBDA c : Contains(ToLower(c), ToLower(query))))

\* UpdateHistorySearch: [query, results, index, ret]
UpdateHistorySearch(h, query) ==
    LET res == SearchMatches(h, query)
    IN  IF Len(res) > 0
        THEN [query |-> query, results |-> res, index |-> 0, ret |-> <<res[1]>>]
        ELSE [query |-> query, results |-> <<>>, index |-> -1, ret |-> <<>>]

\* GetNextSearchResult: [ret, index]
GetNextSearchResult(res, idx) ==
    IF Len(res) = 0 THEN [ret |-> <<>>, index |-> idx]
    ELSE LET i == (idx + 1) % Len(res)
         IN  [ret |-> res[i + 1], index |-> i]

\* a variant that stops at the first match instead of wrapping
GetPreviousSearchResultClamp(res, idx) ==
    IF Len(res) = 0 THEN [ret |-> <<>>, index |-> idx]
    ELSE LET i == IF idx - 1 < 0 THEN 0 ELSE idx - 1
         IN  [ret |-> res[i + 1], index |-> i]

\* GetPreviousSearchResult: [ret, index]
GetPreviousSearchResult(res, idx) ==
    IF Len(res) = 0 THEN [ret |-> <<>>, index |-> idx]
    ELSE LET i == IF idx - 1 < 0 THEN Len(res) - 1 ELSE idx - 1
         IN  [ret |-> res[i + 1], index |-> i]

(***************************************************************************)
(* Completion (terminal.go).                                               *)
(***************************************************************************)
\* "HIST: " and "CMD: "
HistTag == <<72, 73, 83, 84, 58, 32>>
CmdTag == <<67, 77, 68, 58, 32>>

s_cd == <<99, 100>>
s_clear == <<99, 108, 101, 97, 114>>
s_exit == <<101, 120, 105, 116>>
s_help == <<104, 101, 108, 112>>
s_quit == <<113, 117, 105, 116>>
s_dot == <<46>>
s_slash == <<47>>

\* GetCompletions: builtins := []string{"cd", "clear", "exit", "help", "quit"}
Builtins == {s_cd, s_clear, s_exit, s_help, s_quit}

Min(a, b) == IF a < b THEN a ELSE b

\* byte-wise lexicographic order, the order of sort.Strings
StrLess(a, b) ==
    \E i \in 1..(Min(Len(a), Len(b)) + 1) :
        /\ SubSeq(a, 1, i - 1) = SubSeq(b, 1, i - 1)
        /\ \/ i > Len(a) /\ i <= Len(b)
           \/ i <= Len(a) /\ i <= Len(b) /\ a[i] < b[i]

\* sort.Strings over a set of distinct strings
RECURSIVE SortStrings(_)
SortStrings(S) ==
    IF S = {} THEN <<>>
    ELSE LET m == CHOOSE x \in S : \A y \in S : y = x \/ StrLess(x, y)
         IN  <<m>> \o SortStrings(S \ {m})

Take(s, n) == IF Len(s) > n THEN SubSeq(s, 1, n) ELSE s

InSeq(x, s) == \E i \in 1..Len(s) : s[i] = x

\* the history scans of GetCompletions: from the newest entry down, the
\* entries not seen before, until HistLimit are found
RECURSIVE UniqueNewestFrom(_, _, _)
UniqueNewestFrom(m, i, acc) ==
    IF i < 1 \/ Len(acc) >= HistLimit THEN acc
    ELSE UniqueNewestFrom(m, i - 1,
                          IF InSeq(m[i], acc) THEN acc ELSE Append(acc, m[i]))

\* the scan over m, the entries that match
UniqueHistory(m) == UniqueNewestFrom(m, Len(m), <<>>)

Tagged(tag, s) == [i \in 1..Len(s) |-> tag \o s[i]]

\* os.UserHomeDir: the empty string stands for its error
HomeDirOk(e) == e.home # <<>>

\* the index of the last '/' of p, 0 if none
LastSlash(p) ==
    IF \E i \in 1..Len(p) : p[i] = 47
    THEN CHOOSE i \in 1..Len(p) : p[i] = 47 /\ \A j \in (i + 1)..Len(p) : p[j] # 47
    ELSE 0

\* p without its trailing slashes
RECURSIVE TrimSlashes(_)
TrimSlashes(p) ==
    IF Len(p) > 0 /\ p[Len(p)] = 47 THEN TrimSlashes(SubSeq(p, 1, Len(p) - 1)) ELSE p

\* filepath.Dir for paths without ".", ".." and doubled-slash elements
PathDir(p) ==
    LET d == SubSeq(p, 1, LastSlash(p))
        t == TrimSlashes(d)
    IN  IF d = <<>> THEN s_dot ELSE IF t = <<>> THEN s_slash ELSE t

\* filepath.Base
PathBase(p) ==
    IF p = <<>> THEN s_dot
    ELSE LET t == TrimSlashes(p)
         IN  IF t = <<>> THEN s_slash ELSE SubSeq(t, LastSlash(t) + 1, Len(t))

\* os.ReadDir(dir): the entries [name, isDir], or an error
ReadDirOk(e, dir) == dir \in DOMAIN e.dirs
ReadDir(e, dir) == e.dirs[dir]

\* a variant that takes the newest entries without skipping repeats
CompletionsEmptyKeepRepeats(h) ==
    Tagged(HistTag, [i \in 1..Min(HistLimit, Len(h)) |-> h[Len(h) + 1 - i]])

\* GetCompletions, empty input
CompletionsEmpty(h) ==
    Tagged(HistTag, UniqueHistory(h))

\* GetCompletions, input of spaces only: the untagged prefix matches
CompletionsBlank(h, input) ==
    UniqueHistory(SelectSeq(h, LAMBDA c : HasPrefix(ToLower(c), ToLower(input))))

\* a variant that cuts the commands to 6 whether or not history matches
CompletionsCommandSix(h, e, tok) ==
    LET names == {c \in Builtins \cup e.path : HasPrefix(c, tok)}
        result == SortStrings({CmdTag \o c : c \in names})
        hm == Tagged(HistTag,
                     UniqueHistory(SelectSeq(h, LAMBDA c : HasPrefix(ToLower(c), ToLower(tok)))))
    IN  hm \o Take(result, CmdLimitAlone)

\* GetCompletions, one token and no space: command completion
CompletionsCommand(h, e, tok) ==
    LET names == {c \in Builtins \cup e.path : HasPrefix(c, tok)}
        result == SortStrings({CmdTag \o c : c \in names})
        hm == Tagged(HistTag,
                     UniqueHistory(SelectSeq(h, LAMBDA c : HasPrefix(ToLower(c), ToLower(tok)))))
        cut == Take(result, CmdLimitWithHist)
    IN  IF Len(hm) > 0 THEN hm \o cut ELSE Take(cut, CmdLimitAlone)

\* GetCompletions, several tokens or a trailing space: path completion
CompletionsPath(h, e, input, parts) ==
    LET arg0 == IF HasSuffix(input, <<SP>>) THEN <<>> ELSE parts[Len(parts)]
        currentArg == IF HasPrefix(arg0, <<126>>) /\ HomeDirOk(e)
                      THEN e.home \o SubSeq(arg0, 2, Len(arg0))
                      ELSE arg0
        searchDir == IF currentArg # <<>> THEN PathDir(currentArg) ELSE s_dot
        searchPrefix == IF currentArg # <<>> THEN PathBase(currentArg) ELSE <<>>
    IN  IF ~ReadDirOk(e, searchDir) THEN <<>>
        ELSE LET files == {f \in ReadDir(e, searchDir) : HasPrefix(f.name, searchPrefix)}
                 completions == SortStrings(
                     {CmdTag \o (IF f.isDir THEN f.name \o s_slash ELSE f.name) : f \in files})
                 hm == Tagged(HistTag,
                              UniqueHistory(SelectSeq(h, LAMBDA c : Contains(c, currentArg))))
                 cut == IF Len(hm) > 0 /\ Len(completions) > CmdLimitWithHist
                        THEN Take(completions, CmdLimitWithHist)
                        ELSE Take(completions, CmdLimitAlone)
             IN  IF Len(hm) > 0 THEN hm \o cut ELSE cut

\* GetCompletions
GetCompletions(h, e, input) ==
    IF input = <<>> THEN CompletionsEmpty(h)
    ELSE LET parts == Fields(input)
         IN  IF Len(parts) = 0 THEN CompletionsBlank(h, input)
             ELSE IF Len(parts) = 1 /\ ~Contains(input, <<SP>>)
                  THEN CompletionsCommand(h, e, parts[1])
                  ELSE CompletionsPath(h, e, input, parts)

\* the order-preserving deduplication at the head of ShowInlineSuggestion
RECURSIVE Dedup(_)
Dedup(s) ==
    IF s = <<>> THEN <<>>
    ELSE LET d == Dedup(SubSeq(s, 1, Len(s) - 1))
         IN  IF InSeq(s[Len(s)], d) THEN d ELSE Append(d, s[Len(s)])

\* ShowInlineSuggestion: the value left in currentSuggestion
ShowInlineSuggestion(h, e, input) ==
    LET completions == Dedup(GetCompletions(h, e, input))
        ok == {i \in 1..Len(completions) :
                   HasPrefix(ToLower(completions[i]), ToLower(input))}
    IN  IF ok = {} THEN <<>>
        ELSE completions[CHOOSE i \in ok : \A j \in ok : i <= j]

\* SelectNextCompletion: the selection index after the call
SelectNextCompletion(sugg, sel) ==
    IF Len(sugg) > 0 THEN (sel + 1) % Len(sugg) ELSE sel

\* SelectPreviousCompletion: the selection index after the call
SelectPreviousCompletion(sugg, sel) ==
    IF Len(sugg) > 0 THEN (sel - 1 + Len(sugg)) % Len(sugg) ELSE sel

\* the text after the first ": " of s, or s when there is none
StripTag(s) ==
    LET at == {i \in 1..(Len(s) - 1) : s[i] = 58 /\ s[i + 1] = 32}
    IN  IF at = {} THEN s
        ELSE SubSeq(s, (CHOOSE i \in at : \A j \in at : i <= j) + 2, Len(s))

\* GetSelectedCompletion
GetSelectedCompletion(sugg, sel) ==
    IF Len(sugg) > 0 /\ sel >= 0 /\ sel < Len(sugg)
    THEN StripTag(sugg[sel + 1])
    ELSE <<>>

(***************************************************************************)
(* The runs explored: files found at startup, operating-system answers,    *)
(* and the bytes the terminal delivers.                                    *)
(***************************************************************************)
s_foo == <<102, 111, 111>>
s_bar == <<98, 97, 114>>
s_foobar == <<102, 111, 111, 98, 97, 114>>
s_Fo == <<70, 111>>
s_fo == <<102, 111>>
s_ls == <<108, 115>>
s_x == <<120>>
s_home == <<47, 104>>

FileOf(data) == [state |-> "file", data |-> data]

\* foo\nbar\nfoobar
DiskExample == FileOf(Join(<<s_foo, s_bar, s_foobar>>))
\* ls\nls\n\nFo\n : a repeated line, an empty line, a trailing newline
DiskRepeat == FileOf(<<108, 115, 10, 108, 115, 10, 10, 70, 111, 10>>)
DiskEmpty == FileOf(<<>>)
DiskMissing == [state |-> "missing", data |-> <<>>]
DiskUnreadable == [state |-> "unreadable", data |-> <<>>]

EnvFull ==
    [writable |-> TRUE, home |-> s_home, path |-> {s_fo, s_foo, s_x},
     dirs |-> (s_dot :> {[name |-> s_fo, isDir |-> FALSE],
                         [name |-> s_x, isDir |-> TRUE]})]
EnvBare ==
    [writable |-> FALSE, home |-> s_home, path |-> {},
     dirs |-> (s_home :> {})]

Envs == {EnvFull, EnvBare}

\* help\ncd\nexit
DiskBuiltins == FileOf(Join(<<s_help, s_cd, s_exit>>))

\* 5 A B x, Backspace (both bytes), NUL
KeysEdit == {53, 65, 66, 120, DEL, BS, 0}
\* ESC [ A B, Enter
KeysArrows == {ESC, 91, 65, 66, CR}
\* ESC O A B, a control byte
KeysArrowsO == {ESC, 79, 65, 66, 1}
\* Ctrl+R, f, o, Backspace, Enter
KeysQuery == {CTRLR, 102, 111, DEL, CR}
\* Ctrl+R, f, Tab, ESC, Enter
KeysCycle == {CTRLR, 102, TAB, ESC, CR}
\* space, l, Ctrl+R, Enter (both bytes)
KeysBlank == {SP, 108, CTRLR, CR, NL}
\* f, F, Tab, Backspace, Enter
KeysTab == {102, 70, TAB, BS, NL}

\* ESC [ C and ESC O C after an 'f' that brings up candidates
KeysRight == {ESC, 91, 79, 67, 102}
\* ESC [ 5 B after an 'f'
KeysCtrlDown == {ESC, 91, 53, 66, 102}
\* ESC [ 5 A, ESC [ 1 ; 5 A, ESC [ 5 ;
KeysCtrlUp == {ESC, 91, 49, 59, 53, 65}

\* e, c, Tab, space, Enter: a built-in typed or accepted, then committed
KeysBuiltin == {101, 99, TAB, SP, CR}

Run(k, d, e) == [keys |-> k, disk |-> d, env |-> e]

\* the sessions explored: the keys pressed, the file found, the system
Sessions ==
    {Run(KeysEdit, DiskRepeat, EnvFull),
     Run(KeysEdit, DiskUnreadable, EnvBare),
     Run(KeysArrows, DiskExample, EnvFull),
     Run(KeysArrows, DiskBuiltins, EnvBare),
     Run(KeysArrows, DiskEmpty, EnvFull),
     Run(KeysArrowsO, DiskRepeat, EnvFull),
     Run(KeysQuery, DiskExample, EnvFull),
     Run(KeysCycle, DiskExample, EnvFull),
     Run(KeysCycle, DiskBuiltins, EnvFull),
     Run(KeysBlank, DiskMissing, EnvFull),
     Run(KeysBlank, DiskMissing, EnvBare),
     Run(KeysTab, DiskRepeat, EnvFull)}

\* the sessions of escape sequences in normal mode
SessionsEsc ==
    {Run(KeysRight, DiskExample, EnvFull),
     Run(KeysCtrlDown, DiskExample, EnvFull),
     Run(KeysCtrlUp, DiskExample, EnvFull),
     Run(KeysCtrlUp, DiskEmpty, EnvBare)}

(***************************************************************************)
(* The session loop (main.go).                                             *)
(***************************************************************************)
\* the process at the main loop: terminal open in raw mode, the listener
\* goroutine waiting on sigChan, no signal delivered
ProcLoop ==
    [main |-> "loop", lis |-> "wait", chan |-> <<>>, sent |-> 0,
     handle |-> "open", closes |-> 0, alive |-> TRUE, status |-> 0]

\* the observer's notes: the buffer when Ctrl+R entered the search mode that
\* is on, and, while the bytes read from an ESC in normal mode on may still
\* grow into one of the documented key sequences, these bytes and the
\* buffer at that ESC
NoObs == [searchStart |-> <<>>, escBuf |-> <<>>, escBytes |-> <<>>]

\* the proper prefixes of ESC A, ESC [ A, ESC O A, ESC [ 5 A, ESC [ 1 ; 5 A
EscPrefixes ==
    {<<ESC>>, <<ESC, 91>>, <<ESC, 79>>, <<ESC, 91, 53>>, <<ESC, 91, 49>>,
     <<ESC, 91, 49, 59>>, <<ESC, 91, 49, 59, 53>>}

Observe(b) ==
    IF pc = "read" /\ ~searchMode /\ b = CTRLR
    THEN [searchStart |-> cmdBuffer, escBuf |-> <<>>, escBytes |-> <<>>]
    ELSE IF pc = "read" /\ searchMode /\ b \in {ESC, CR, NL}
    THEN NoObs
    ELSE IF pc = "read" /\ ~searchMode /\ b = ESC
    THEN [obs EXCEPT !.escBuf = cmdBuffer, !.escBytes = <<ESC>>]
    ELSE IF Append(obs.escBytes, b) \in EscPrefixes
    THEN [obs EXCEPT !.escBytes = Append(@, b)]
    ELSE [obs EXCEPT !.escBuf = <<>>, !.escBytes = <<>>]

\* term.ReadChar() returns b
ReadChar(b) ==
    /\ b \in keys
    /\ nread < MaxBytes
    /\ ch' = b
    /\ nread' = nread + 1
    /\ obs' = Observe(b)
    /\ proc' = proc

Call(op, arg, ret, err) == [op |-> op, arg |-> arg, ret |-> ret, err |-> err]

\* NewTerminal and the start of main, up to the first prompt
SessionInit(runs) ==
    /\ \E r \in runs :
          LET l == loadHistory(r.disk, r.env)
          IN  /\ keys = r.keys
              /\ env = r.env
              /\ history = l.history
              /\ loaded = l.history
              /\ disk = l.disk
              /\ calls = <<Call("loadHistory", r.disk, l.history, l.err)>>
    /\ historyIndex = -1
    /\ cmdBuffer = <<>>
    /\ ch = 0
    /\ pc = "read"
    /\ searchMode = FALSE
    /\ searchQuery = <<>>
    /\ searchResults = <<>>
    /\ searchIndex = 0
    /\ currentSuggestions = <<>>
    /\ selectedIndex = 0
    /\ currentSuggestion = <<>>
    /\ nread = 0
    /\ obs = NoObs
    /\ proc = ProcLoop

Init == SessionInit(Sessions)

\* a variant of the switch without the len(parts) > 0 test
CommitBranchNoFields(cmd) ==
    IF cmd \in {s_exit, s_quit} THEN "exit"
    ELSE IF cmd = s_clear THEN "clear"
    ELSE IF cmd = s_help THEN "help"
    ELSE IF cmd # <<>> THEN "exec"
    ELSE "none"

\* the switch on cmd of the Enter handlers: which branch takes the line
CommitBranch(cmd) ==
    IF cmd \in {s_exit, s_quit} THEN "exit"
    ELSE IF cmd = s_clear THEN "clear"
    ELSE IF cmd = s_help THEN "help"
    ELSE IF Len(Fields(cmd)) > 0 THEN "exec"
    ELSE "none"

\* "Error saving history: " and "Error: ", the heads of the inline error lines
s_ErrSave == <<69, 114, 114, 111, 114, 32, 115, 97, 118, 105, 110, 103, 32,
               104, 105, 115, 116, 111, 114, 121, 58, 32>>
s_ErrExec == <<69, 114, 114, 111, 114, 58, 32>>

\* if err != nil { term.WriteLine(fmt.Sprintf(head + "%v", err)) }
ErrorLine(err, head) ==
    IF err THEN <<Call("WriteLine", head, <<>>, FALSE)>> ELSE <<>>

\* a variant in which an error of ExecuteCommand ends the loop
CommitExecErrorEnds(cmd, pre) ==
    /\ historyIndex' = ResetHistoryIndex
    /\ IF cmd = <<>>
       THEN /\ cmdBuffer' = <<>>
            /\ pc' = "read"
            /\ calls' = pre
            /\ UNCHANGED <<history, disk, env>>
       ELSE LET a == AddToHistory(history, disk, env, cmd)
                added == pre \o <<Call("AddToHistory", cmd, <<>>, a.err)>>
                               \o ErrorLine(a.err, s_ErrSave)
                br == CommitBranch(cmd)
            IN  /\ history' = a.history
                /\ disk' = a.disk
                /\ IF br = "exec"
                   THEN \E err \in BOOLEAN, e2 \in Envs :
                           /\ env' = e2
                           /\ cmdBuffer' = IF err THEN cmdBuffer ELSE <<>>
                           /\ pc' = IF err THEN "exited" ELSE "read"
                           /\ calls' = added
                                  \o <<Call("ExecuteCommand", cmd, <<>>, err)>>
                                  \o ErrorLine(err, s_ErrExec)
                   ELSE /\ env' = env
                        /\ cmdBuffer' = IF br = "exit" THEN cmdBuffer ELSE <<>>
                        /\ pc' = IF br = "exit" THEN "exited" ELSE "read"
                        /\ calls' = IF br = "none" THEN added
                                    ELSE added \o <<Call("builtin", cmd, <<>>, FALSE)>>

\* the Enter handlers from cmd := cmdBuffer.String() on (the two copies in
\* main.go are the same): ResetHistoryIndex, AddToHistory, the switch on
\* cmd, cmdBuffer.Reset(); pre is the log of the calls made before
Commit(cmd, pre) ==
    /\ historyIndex' = ResetHistoryIndex
    /\ IF cmd = <<>>
       THEN /\ cmdBuffer' = <<>>
            /\ pc' = "read"
            /\ calls' = pre
            /\ UNCHANGED <<history, disk, env>>
       ELSE LET a == AddToHistory(history, disk, env, cmd)
                added == pre \o <<Call("AddToHistory", cmd, <<>>, a.err)>>
                               \o ErrorLine(a.err, s_ErrSave)
                br == CommitBranch(cmd)
            IN  /\ history' = a.history
                /\ disk' = a.disk
                /\ cmdBuffer' = IF br = "exit" THEN cmdBuffer ELSE <<>>
                /\ pc' = IF br = "exit" THEN "exited" ELSE "read"
                /\ IF br = "exec"
                   THEN \E err \in BOOLEAN, e2 \in Envs :
                           /\ env' = e2
                           /\ calls' = added
                                  \o <<Call("ExecuteCommand", cmd, <<>>, err)>>
                                  \o ErrorLine(err, s_ErrExec)
                   ELSE /\ env' = env
                        /\ calls' = IF br = "none" THEN added
                                    ELSE added \o <<Call("builtin", cmd, <<>>, FALSE)>>

\* ExitHistorySearch
ExitHistorySearch ==
    /\ searchMode' = FALSE
    /\ searchQuery' = <<>>
    /\ searchResults' = <<>>
    /\ searchIndex' = -1

\* a variant in which Ctrl+R received in search mode leaves search mode
CtrlRToggle ==
    /\ pc = "read"
    /\ ReadChar(CTRLR)
    /\ IF ~searchMode
       THEN /\ searchMode' = TRUE
            /\ searchQuery' = <<>>
            /\ searchResults' = <<>>
            /\ searchIndex' = -1
       ELSE ExitHistorySearch
    /\ calls' = <<>>
    /\ UNCHANGED <<cmdBuffer, pc, history, historyIndex, currentSuggestions,
                   selectedIndex, currentSuggestion, disk, env, keys, loaded>>

\* if ch == 18: Ctrl+R enters search mode, and is dropped in search mode
CtrlR ==
    /\ pc = "read"
    /\ ReadChar(CTRLR)
    /\ IF ~searchMode
       THEN /\ searchMode' = TRUE
            /\ searchQuery' = <<>>
            /\ searchResults' = <<>>
            /\ searchIndex' = -1
       ELSE UNCHANGED <<searchMode, searchQuery, searchResults, searchIndex>>
    /\ calls' = <<>>
    /\ UNCHANGED <<cmdBuffer, pc, history, historyIndex, currentSuggestions,
                   selectedIndex, currentSuggestion, disk, env, keys, loaded>>

\* search mode, case 27
SearchEscape ==
    /\ pc = "read" /\ searchMode
    /\ ReadChar(ESC)
    /\ ExitHistorySearch
    /\ calls' = <<Call("ExitHistorySearch", <<>>, <<>>, FALSE)>>
    /\ UNCHANGED <<cmdBuffer, pc, history, historyIndex, currentSuggestions,
                   selectedIndex, currentSuggestion, disk, env, keys, loaded>>

\* search mode, case '\r', '\n'
SearchEnter ==
    /\ pc = "read" /\ searchMode
    /\ \E b \in {CR, NL} : ReadChar(b)
    /\ ExitHistorySearch
    /\ Commit(cmdBuffer, <<Call("ExitHistorySearch", <<>>, <<>>, FALSE)>>)
    /\ UNCHANGED <<currentSuggestions, selectedIndex, currentSuggestion, keys, loaded>>

\* search mode, the query edits: UpdateHistorySearch(newQuery) and the
\* preview of its first result in the buffer
SearchUpdate(newQuery) ==
    LET u == UpdateHistorySearch(history, newQuery)
    IN  /\ searchQuery' = u.query
        /\ searchResults' = u.results
        /\ searchIndex' = u.index
        /\ cmdBuffer' = IF Len(u.ret) > 0 THEN u.ret[1] ELSE cmdBuffer
        /\ calls' = <<Call("UpdateHistorySearch", newQuery, u.ret, FALSE)>>

\* search mode, case 127, 8
SearchBackspace ==
    /\ pc = "read" /\ searchMode
    /\ \E b \in {DEL, BS} : ReadChar(b)
    /\ IF Len(searchQuery) > 0
       THEN SearchUpdate(SubSeq(searchQuery, 1, Len(searchQuery) - 1))
       ELSE /\ calls' = <<>>
            /\ UNCHANGED <<searchQuery, searchResults, searchIndex, cmdBuffer>>
    /\ UNCHANGED <<pc, history, historyIndex, searchMode, currentSuggestions,
                   selectedIndex, currentSuggestion, disk, env, keys, loaded>>

\* search mode, case '\t'
SearchTab ==
    /\ pc = "read" /\ searchMode
    /\ ReadChar(TAB)
    /\ LET r == GetNextSearchResult(searchResults, searchIndex)
       IN  /\ searchIndex' = r.index
           /\ cmdBuffer' = IF r.ret # <<>> THEN r.ret ELSE cmdBuffer
           /\ calls' = <<Call("GetNextSearchResult", <<>>, r.ret, FALSE)>>
    /\ UNCHANGED <<pc, history, historyIndex, searchMode, searchQuery,
                   searchResults, currentSuggestions, selectedIndex,
                   currentSuggestion, disk, env, keys, loaded>>

\* search mode, default: a printable byte extends the query, any other
\* byte is dropped
SearchDefault ==
    /\ pc = "read" /\ searchMode
    /\ \E b \in keys \ {CTRLR, ESC, CR, NL, DEL, BS, TAB} :
          /\ ReadChar(b)
          /\ IF Printable(b)
             THEN SearchUpdate(Append(searchQuery, b))
             ELSE /\ calls' = <<>>
                  /\ UNCHANGED <<searchQuery, searchResults, searchIndex, cmdBuffer>>
    /\ UNCHANGED <<pc, history, historyIndex, searchMode, currentSuggestions,
                   selectedIndex, currentSuggestion, disk, env, keys, loaded>>

\* a variant that starts every recall from the newest entry
handleUpArrowFromNewest ==
    LET r == GetPreviousHistory(history, -1)
    IN  /\ historyIndex' = r.idx
        /\ calls' = <<Call("GetPreviousHistory", <<>>, r.ret, FALSE)>>
        /\ IF r.ret # <<>>
           THEN /\ cmdBuffer' = r.ret
                /\ currentSuggestion' = ShowInlineSuggestion(history, env, r.ret)
           ELSE UNCHANGED <<cmdBuffer, currentSuggestion>>

\* handleUpArrow
handleUpArrow ==
    LET r == GetPreviousHistory(history, historyIndex)
    IN  /\ historyIndex' = r.idx
        /\ calls' = <<Call("GetPreviousHistory", <<>>, r.ret, FALSE)>>
        /\ IF r.ret # <<>>
           THEN /\ cmdBuffer' = r.ret
                /\ currentSuggestion' = ShowInlineSuggestion(history, env, r.ret)
           ELSE UNCHANGED <<cmdBuffer, currentSuggestion>>

\* handleDownArrow
handleDownArrow ==
    LET r == GetNextHistory(history, historyIndex)
    IN  /\ historyIndex' = r.idx
        /\ calls' = <<Call("GetNextHistory", <<>>, r.ret, FALSE)>>
        /\ cmdBuffer' = r.ret
        /\ currentSuggestion' = ShowInlineSuggestion(history, env, r.ret)

\* if ch == 27, outside search mode: the loop goes on to read the next byte
EscFirst ==
    /\ pc = "read" /\ ~searchMode
    /\ ReadChar(ESC)
    /\ pc' = "esc1"
    /\ calls' = <<>>
    /\ UNCHANGED <<cmdBuffer, termVars, disk, env, keys, loaded>>

\* the byte after ESC: 'A' and 'B' are the arrows, 'O' and '[' ask for one
\* more byte, any other byte ends the sequence and is dropped
EscSecond ==
    /\ pc = "esc1"
    /\ \E b \in keys :
          /\ ReadChar(b)
          /\ IF b = 65 THEN pc' = "read" /\ handleUpArrow
             ELSE IF b = 66 THEN pc' = "read" /\ handleDownArrow
             ELSE /\ pc' = IF b \in {79, 91} THEN "esc2" ELSE "read"
                  /\ calls' = <<>>
                  /\ UNCHANGED <<cmdBuffer, historyIndex, currentSuggestion>>
    /\ UNCHANGED <<history, searchMode, searchQuery, searchResults, searchIndex,
                   currentSuggestions, selectedIndex, disk, env, keys, loaded>>

\* the byte after ESC O or ESC [: 'A' and 'B' are the arrows, any other
\* byte is dropped
EscThird ==
    /\ pc = "esc2"
    /\ \E b \in keys :
          /\ ReadChar(b)
          /\ IF b = 65 THEN handleUpArrow
             ELSE IF b = 66 THEN handleDownArrow
             ELSE /\ calls' = <<>>
                  /\ UNCHANGED <<cmdBuffer, historyIndex, currentSuggestion>>
    /\ pc' = "read"
    /\ UNCHANGED <<history, searchMode, searchQuery, searchResults, searchIndex,
                   currentSuggestions, selectedIndex, disk, env, keys, loaded>>

\* "If we're completing a command, add a space"
WithSpace(selected) ==
    IF Contains(selected, <<SP>>) THEN selected ELSE Append(selected, SP)

\* term.currentSuggestions = term.GetCompletions(input), and the selection
\* reset that follows it when the list is not empty
Recompute(input) ==
    LET c == GetCompletions(history, env, input)
    IN  /\ currentSuggestions' = c
        /\ selectedIndex' = IF Len(c) > 0 THEN 0 ELSE selectedIndex

\* case '\t'
TabKey ==
    /\ pc = "read" /\ ~searchMode
    /\ ReadChar(TAB)
    /\ calls' = <<>>
    /\ IF Len(currentSuggestions) > 0
       THEN LET selected == GetSelectedCompletion(currentSuggestions, selectedIndex)
            IN  IF selected # <<>>
                THEN /\ cmdBuffer' = WithSpace(selected)
                     /\ Recompute(WithSpace(selected))
                     /\ UNCHANGED currentSuggestion
                ELSE UNCHANGED <<cmdBuffer, currentSuggestions, selectedIndex,
                                 currentSuggestion>>
       ELSE /\ Recompute(cmdBuffer)
            /\ currentSuggestion' =
                   IF Len(GetCompletions(history, env, cmdBuffer)) > 0
                   THEN ShowInlineSuggestion(history, env, cmdBuffer)
                   ELSE currentSuggestion
            /\ UNCHANGED cmdBuffer
    /\ UNCHANGED <<pc, history, historyIndex, searchMode, searchQuery,
                   searchResults, searchIndex, disk, env, keys, loaded>>

\* case '\r', '\n'
EnterKey ==
    /\ pc = "read" /\ ~searchMode
    /\ \E b \in {CR, NL} : ReadChar(b)
    /\ Commit(cmdBuffer, <<>>)
    /\ UNCHANGED <<searchMode, searchQuery, searchResults, searchIndex,
                   currentSuggestions, selectedIndex, currentSuggestion,
                   keys, loaded>>

\* case 127, 8
Backspace ==
    /\ pc = "read" /\ ~searchMode
    /\ \E b \in {DEL, BS} : ReadChar(b)
    /\ calls' = <<>>
    /\ IF Len(cmdBuffer) > 0
       THEN LET s == SubSeq(cmdBuffer, 1, Len(cmdBuffer) - 1)
            IN  /\ cmdBuffer' = s
                /\ currentSuggestion' = ShowInlineSuggestion(history, env, s)
       ELSE UNCHANGED <<cmdBuffer, currentSuggestion>>
    /\ UNCHANGED <<pc, history, historyIndex, searchMode, searchQuery,
                   searchResults, searchIndex, currentSuggestions,
                   selectedIndex, disk, env, keys, loaded>>

\* a variant that takes only a trailing "5A" for a Ctrl+arrow tail
EndsInCtrlArrowOnlyUp(buf) ==
    Len(buf) >= 2 /\ SubSeq(buf, Len(buf) - 1, Len(buf)) = <<53, 65>>

\* default, first part: does the buffer end in "5A" or "5B"
EndsInCtrlArrow(buf) ==
    Len(buf) >= 2 /\ SubSeq(buf, Len(buf) - 1, Len(buf)) \in {<<53, 65>>, <<53, 66>>}

\* default: a buffer ending in "5A"/"5B" loses these two bytes, which are
\* taken for Ctrl+Up/Ctrl+Down, and the byte read is dropped; otherwise a
\* printable byte is appended and any other byte is dropped
DefaultKey ==
    /\ pc = "read" /\ ~searchMode
    /\ calls' = <<>>
    /\ \E b \in keys \ {CTRLR, ESC, TAB, CR, NL, DEL, BS} :
          /\ ReadChar(b)
          /\ IF EndsInCtrlArrow(cmdBuffer)
             THEN LET rest == SubSeq(cmdBuffer, 1, Len(cmdBuffer) - 2)
                      up == cmdBuffer[Len(cmdBuffer)] = 65
                      c == IF Len(currentSuggestions) = 0
                           THEN GetCompletions(history, env, rest)
                           ELSE currentSuggestions
                      sel == IF Len(currentSuggestions) = 0 /\ Len(c) > 0
                             THEN 0 ELSE selectedIndex
                  IN  /\ cmdBuffer' = rest
                      /\ currentSuggestions' = c
                      /\ selectedIndex' = IF up THEN SelectPreviousCompletion(c, sel)
                                          ELSE SelectNextCompletion(c, sel)
                      /\ UNCHANGED currentSuggestion
             ELSE IF Printable(b)
                  THEN /\ cmdBuffer' = Append(cmdBuffer, b)
                       /\ Recompute(Append(cmdBuffer, b))
                       /\ currentSuggestion' =
                              ShowInlineSuggestion(history, env, Append(cmdBuffer, b))
                  ELSE UNCHANGED <<cmdBuffer, currentSuggestions, selectedIndex,
                                   currentSuggestion>>
    /\ UNCHANGED <<pc, history, historyIndex, searchMode, searchQuery,
                   searchResults, searchIndex, disk, env, keys, loaded>>

\* term.ReadChar() fails: the main read ends the loop, a read inside an
\* escape sequence goes back to the main read
ReadError ==
    /\ pc \in {"read", "esc1", "esc2"}
    /\ pc' = IF pc = "read" THEN "exited" ELSE "read"
    /\ calls' = <<>>
    /\ obs' = [obs EXCEPT !.escBuf = <<>>, !.escBytes = <<>>]
    /\ UNCHANGED <<cmdBuffer, ch, termVars, disk, env, keys, loaded, nread, proc>>

Next ==
    \/ CtrlR
    \/ SearchEscape
    \/ SearchEnter
    \/ SearchBackspace
    \/ SearchTab
    \/ SearchDefault
    \/ EscFirst
    \/ EscSecond
    \/ EscThird
    \/ TabKey
    \/ EnterKey
    \/ Backspace
    \/ DefaultKey
    \/ ReadError

Spec == Init /\ [][Next]_vars

\* the sessions that commit built-in commands
SessionsBuiltin ==
    {Run(KeysBuiltin, DiskBuiltins, EnvFull),
     Run(KeysBuiltin, DiskBuiltins, EnvBare),
     Run(KeysBuiltin, DiskEmpty, EnvBare)}

BuiltinInit == SessionInit(SessionsBuiltin)

BuiltinNext == TabKey \/ EnterKey \/ DefaultKey \/ ReadError

SpecBuiltin == BuiltinInit /\ [][BuiltinNext]_vars

\* the sessions of SessionsEsc: their keys reach these handlers only
EscInit == SessionInit(SessionsEsc)

EscNext ==
    \/ EscFirst
    \/ EscSecond
    \/ EscThird
    \/ DefaultKey
    \/ ReadError

SpecEsc == EscInit /\ [][EscNext]_vars

(***************************************************************************)
(* The Terminal methods called directly, in any order, on a Terminal as    *)
(* NewTerminal leaves it: the history store and the search session.        *)
(***************************************************************************)
s_a == <<97>>
s_b == <<98>>
s_two == <<97, 10, 98>>

\* a, b, a, b, ... : n entries
Alternating(n) == [i \in 1..n |-> IF i % 2 = 1 THEN s_a ELSE s_b]

DiskAtCap == FileOf(Join(Alternating(HistoryCap)))
DiskOverCap == FileOf(Join(Alternating(HistoryCap + 1)))
DiskOne == FileOf(s_ls)

EnvNoHome == [EnvFull EXCEPT !.home = <<>>]
EnvReadOnly == [EnvFull EXCEPT !.writable = FALSE]

\* the commands handed to AddToHistory: "", ls, Fo, foo, and a\nb
AddCmds == {<<>>, s_ls, s_Fo, s_foo, s_two}

\* the queries handed to UpdateHistorySearch: "", foo, FO, o, x
Queries == {<<>>, s_foo, <<70, 79>>, <<111>>, s_x}

ApiInit(disks, envs) ==
    /\ env \in envs
    /\ \E d \in disks :
          LET l == loadHistory(d, env)
          IN  /\ history = l.history
              /\ loaded = l.history
              /\ disk = l.disk
              /\ calls = <<Call("loadHistory", d, l.history, l.err)>>
    /\ historyIndex = -1
    /\ cmdBuffer = <<>>
    /\ ch = 0
    /\ pc = "api"
    /\ keys = {}
    /\ searchMode = FALSE
    /\ searchQuery = <<>>
    /\ searchResults = <<>>
    /\ searchIndex = 0
    /\ currentSuggestions = <<>>
    /\ selectedIndex = 0
    /\ currentSuggestion = <<>>
    /\ nread = 0
    /\ obs = NoObs
    /\ proc = ProcLoop

StoreInit ==
    ApiInit({DiskExample, DiskRepeat, DiskOne, DiskEmpty, DiskMissing,
             DiskUnreadable, DiskAtCap, DiskOverCap},
            {EnvFull, EnvReadOnly, EnvNoHome})

\* t.AddToHistory(cmd)
DoAdd ==
    /\ pc = "api"
    /\ nread < MaxCalls
    /\ \E cmd \in AddCmds :
          LET a == AddToHistory(history, disk, env, cmd)
          IN  /\ history' = a.history
              /\ disk' = a.disk
              /\ calls' = <<Call("AddToHistory", cmd, <<>>, a.err)>>
    /\ nread' = nread + 1
    /\ UNCHANGED <<cmdBuffer, ch, pc, historyIndex, searchMode, searchQuery,
                   searchResults, searchIndex, currentSuggestions,
                   selectedIndex, currentSuggestion, env, keys, loaded, obs, proc>>

\* t.GetPreviousHistory()
DoPrevious ==
    /\ pc = "api"
    /\ LET r == GetPreviousHistory(history, historyIndex)
       IN  /\ historyIndex' = r.idx
           /\ calls' = <<Call("GetPreviousHistory", <<>>, r.ret, FALSE)>>
    /\ UNCHANGED <<cmdBuffer, ch, pc, history, searchMode, searchQuery,
                   searchResults, searchIndex, currentSuggestions,
                   selectedIndex, currentSuggestion, disk, env, keys, loaded, obs, proc,
                   nread>>

\* t.GetNextHistory()
DoNext ==
    /\ pc = "api"
    /\ LET r == GetNextHistory(history, historyIndex)
       IN  /\ historyIndex' = r.idx
           /\ calls' = <<Call("GetNextHistory", <<>>, r.ret, FALSE)>>
    /\ UNCHANGED <<cmdBuffer, ch, pc, history, searchMode, searchQuery,
                   searchResults, searchIndex, currentSuggestions,
                   selectedIndex, currentSuggestion, disk, env, keys, loaded, obs, proc,
                   nread>>

\* t.ResetHistoryIndex()
DoReset ==
    /\ pc = "api"
    /\ historyIndex' = ResetHistoryIndex
    /\ calls' = <<Call("ResetHistoryIndex", <<>>, <<>>, FALSE)>>
    /\ UNCHANGED <<cmdBuffer, ch, pc, history, searchMode, searchQuery,
                   searchResults, searchIndex, currentSuggestions,
                   selectedIndex, currentSuggestion, disk, env, keys, loaded, obs, proc,
                   nread>>

\* the store alone: Load of a file, then Add calls
SpecStore == StoreInit /\ [][DoAdd]_vars

NavInit ==
    ApiInit({DiskExample, DiskRepeat, DiskOne, DiskEmpty, DiskUnreadable},
            {EnvFull, EnvReadOnly})

NavNext == DoAdd \/ DoPrevious \/ DoNext \/ DoReset

\* the store and its navigation cursor
SpecNav == NavInit /\ [][NavNext]_vars

(***************************************************************************)
(* The navigation cursor on a history at the size cap: the store calls of  *)
(* the Up, Down and Enter handlers (main.go 54-86, 305-319), without their *)
(* drawing, on a Terminal loaded from a file of 1000 or 1001 lines.        *)
(***************************************************************************)
\* handleUpArrow: GetPreviousHistory, a non-empty result replaces the line
CapUp ==
    /\ pc = "api"
    /\ nread < MaxCalls
    /\ LET r == GetPreviousHistory(history, historyIndex)
       IN  /\ historyIndex' = r.idx
           /\ cmdBuffer' = IF r.ret # <<>> THEN r.ret ELSE cmdBuffer
           /\ calls' = <<Call("GetPreviousHistory", <<>>, r.ret, FALSE)>>
    /\ nread' = nread + 1
    /\ UNCHANGED <<ch, pc, history, searchMode, searchQuery, searchResults,
                   searchIndex, currentSuggestions, selectedIndex,
                   currentSuggestion, disk, env, keys, loaded, obs, proc>>

\* handleDownArrow: GetNextHistory, the result replaces the line
CapDown ==
    /\ pc = "api"
    /\ nread < MaxCalls
    /\ LET r == GetNextHistory(history, historyIndex)
       IN  /\ historyIndex' = r.idx
           /\ cmdBuffer' = r.ret
           /\ calls' = <<Call("GetNextHistory", <<>>, r.ret, FALSE)>>
    /\ nread' = nread + 1
    /\ UNCHANGED <<ch, pc, history, searchMode, searchQuery, searchResults,
                   searchIndex, currentSuggestions, selectedIndex,
                   currentSuggestion, disk, env, keys, loaded, obs, proc>>

\* case '\r', '\n': ResetHistoryIndex, then AddToHistory of a non-empty
\* line (the recalled line or a typed one), then the buffer is reset
CapEnter ==
    /\ pc = "api"
    /\ nread < MaxCalls
    /\ \E cmd \in {cmdBuffer, s_ls} :
          LET a == IF cmd = <<>>
                   THEN [history |-> history, disk |-> disk, err |-> FALSE]
                   ELSE AddToHistory(history, disk, env, cmd)
          IN  /\ historyIndex' = ResetHistoryIndex
              /\ history' = a.history
              /\ disk' = a.disk
              /\ calls' = <<Call("ResetHistoryIndex", <<>>, <<>>, FALSE)>>
                     \o (IF cmd = <<>> THEN <<>>
                         ELSE <<Call("AddToHistory", cmd, <<>>, a.err)>>)
    /\ cmdBuffer' = <<>>
    /\ nread' = nread + 1
    /\ UNCHANGED <<ch, pc, searchMode, searchQuery, searchResults,
                   searchIndex, currentSuggestions, selectedIndex,
                   currentSuggestion, env, keys, loaded, obs, proc>>

CapInit == ApiInit({DiskAtCap, DiskOverCap}, {EnvFull})

CapNext == CapUp \/ CapDown \/ CapEnter

\* every session of Spec, and the cursor on a history at the cap
IndexInit == Init \/ CapInit

IndexNext == Next \/ CapNext

SpecIndex == IndexInit /\ [][IndexNext]_vars

SearchInit ==
    ApiInit({DiskExample, DiskRepeat, DiskOne, DiskEmpty}, {EnvFull})

\* t.StartHistorySearch()
DoStartSearch ==
    /\ pc = "api"
    /\ searchMode' = TRUE
    /\ searchQuery' = <<>>
    /\ searchResults' = <<>>
    /\ searchIndex' = -1
    /\ calls' = <<Call("StartHistorySearch", <<>>, <<>>, FALSE)>>
    /\ UNCHANGED <<cmdBuffer, ch, pc, history, historyIndex, currentSuggestions,
                   selectedIndex, currentSuggestion, disk, env, keys, loaded, obs, proc,
                   nread>>

\* t.ExitHistorySearch()
DoExitSearch ==
    /\ pc = "api"
    /\ ExitHistorySearch
    /\ calls' = <<Call("ExitHistorySearch", <<>>, <<>>, FALSE)>>
    /\ UNCHANGED <<cmdBuffer, ch, pc, history, historyIndex, currentSuggestions,
                   selectedIndex, currentSuggestion, disk, env, keys, loaded, obs, proc,
                   nread>>

\* t.UpdateHistorySearch(query)
DoUpdateSearch ==
    /\ pc = "api"
    /\ nread < MaxCalls
    /\ \E q \in Queries :
          LET u == UpdateHistorySearch(history, q)
          IN  /\ searchQuery' = u.query
              /\ searchResults' = u.results
              /\ searchIndex' = u.index
              /\ calls' = <<Call("UpdateHistorySearch", q, u.ret, FALSE)>>
    /\ nread' = nread + 1
    /\ UNCHANGED <<cmdBuffer, ch, pc, history, historyIndex, searchMode,
                   currentSuggestions, selectedIndex, currentSuggestion, disk,
                   env, keys, loaded, obs, proc>>

\* t.GetNextSearchResult()
DoNextResult ==
    /\ pc = "api"
    /\ LET r == GetNextSearchResult(searchResults, searchIndex)
       IN  /\ searchIndex' = r.index
           /\ calls' = <<Call("GetNextSearchResult", <<>>, r.ret, FALSE)>>
    /\ UNCHANGED <<cmdBuffer, ch, pc, history, historyIndex, searchMode,
                   searchQuery, searchResults, currentSuggestions,
                   selectedIndex, currentSuggestion, disk, env, keys, loaded, obs, proc,
                   nread>>

\* t.GetPreviousSearchResult()
DoPreviousResult ==
    /\ pc = "api"
    /\ LET r == GetPreviousSearchResult(searchResults, searchIndex)
       IN  /\ searchIndex' = r.index
           /\ calls' = <<Call("GetPreviousSearchResult", <<>>, r.ret, FALSE)>>
    /\ UNCHANGED <<cmdBuffer, ch, pc, history, historyIndex, searchMode,
                   searchQuery, searchResults, currentSuggestions,
                   selectedIndex, currentSuggestion, disk, env, keys, loaded, obs, proc,
                   nread>>

SearchNext ==
    \/ DoStartSearch
    \/ DoExitSearch
    \/ DoUpdateSearch
    \/ DoNextResult
    \/ DoPreviousResult

SpecSearch == SearchInit /\ [][SearchNext]_vars

(***************************************************************************)
(* The completion engine alone: a history loaded from a file, Add calls,   *)
(* and GetCompletions on buffers of each of its branches.                  *)
(***************************************************************************)
s_g == <<103>>
s_git_status == <<103, 105, 116, 32, 115, 116, 97, 116, 117, 115>>
s_sp_ls == <<32, 108, 115>>
s_cd_tilde_x == <<99, 100, 32, 126, 47, 120>>
s_ls_sp == <<108, 115, 32>>
s_ls_f == <<108, 115, 32, 102>>

\* ls\nls\ngit status
DiskLs == FileOf(Join(<<s_ls, s_ls, s_git_status>>))
\* " ls"\nls : an entry that starts with a space
DiskSpace == FileOf(Join(<<s_sp_ls, s_ls>>))
\* cd ~/x\nls
DiskTilde == FileOf(Join(<<s_cd_tilde_x, s_ls>>))

\* g0 .. g9 on the PATH, f0 .. f6 in the working directory (f0 a directory),
\* x in the home directory
EnvTen ==
    [writable |-> TRUE, home |-> s_home,
     path |-> {<<103, d>> : d \in 48..57},
     dirs |-> (s_dot :> {[name |-> <<102, d>>, isDir |-> (d = 48)] : d \in 48..54})
              @@ (s_home :> {[name |-> s_x, isDir |-> FALSE]})]

s_gi == <<103, 105>>
s_git == <<103, 105, 116>>
s_gimp == <<103, 105, 109, 112>>

\* git and gimp on the PATH
EnvGit == [EnvBare EXCEPT !.path = {s_git, s_gimp}]

\* the buffers handed to GetCompletions:
\* "", g, G, c, fo, x, " ", "ls ", "ls f", "cd ~/x"
CompInputs ==
    {<<>>, s_g, <<71>>, <<99>>, s_fo, s_x, <<SP>>, s_ls_sp, s_ls_f, s_cd_tilde_x}

CompInit ==
    ApiInit({DiskLs, DiskSpace, DiskTilde, DiskExample, DiskEmpty},
            {EnvTen, EnvBare})

\* t.GetCompletions(input)
DoComplete ==
    /\ pc = "api"
    /\ \E input \in CompInputs :
          calls' = <<Call("GetCompletions", input,
                          GetCompletions(history, env, input), FALSE)>>
    /\ UNCHANGED <<cmdBuffer, ch, pc, history, historyIndex, searchMode,
                   searchQuery, searchResults, searchIndex, currentSuggestions,
                   selectedIndex, currentSuggestion, disk, env, keys, loaded,
                   obs, proc, nread>>

\* ShowInlineSuggestion: suffixPart := suggestion[len(input):]
InlineSuffix(suggestion, input) ==
    SubSeq(suggestion, Len(input) + 1, Len(suggestion))

\* the buffers handed to ShowInlineSuggestion
SuggestInputs == CompInputs \cup {s_gi}

\* t.ShowInlineSuggestion(input); ret is the suffix drawn after the buffer
DoSuggest ==
    /\ pc = "api"
    /\ \E input \in SuggestInputs :
          LET suggestion == ShowInlineSuggestion(history, env, input)
          IN  /\ currentSuggestion' = suggestion
              /\ calls' = <<Call("ShowInlineSuggestion", input,
                                 InlineSuffix(suggestion, input), FALSE)>>
    /\ UNCHANGED <<cmdBuffer, ch, pc, history, historyIndex, searchMode,
                   searchQuery, searchResults, searchIndex, currentSuggestions,
                   selectedIndex, disk, env, keys, loaded, obs, proc, nread>>

CompNext == DoAdd \/ DoComplete

SpecComp == CompInit /\ [][CompNext]_vars

SuggestInit ==
    ApiInit({DiskLs, DiskSpace, DiskExample, DiskEmpty}, {EnvTen, EnvGit})

SuggestNext == DoAdd \/ DoSuggest

\* the inline suggestion alone
SpecSuggest == SuggestInit /\ [][SuggestNext]_vars

(***************************************************************************)
(* The dropdown alone: the list is filled as the printable-character       *)
(* branch fills it, the selection is moved, and each ShowCompletions call  *)
(* is logged with the rows it draws.                                       *)
(***************************************************************************)
YellowBg == <<27, 91, 52, 51, 109>>
GreenBg == <<27, 91, 52, 50, 109>>
BlueBg == <<27, 91, 52, 52, 109>>
\* "\033[44m", the literal written for a selected history row
SelectedHistBg == <<27, 91, 52, 52, 109>>

\* ShowCompletions: the background of row i (from 0) when sel is selected
RowBackground(suggestion, i, sel) ==
    IF HasPrefix(suggestion, HistTag)
    THEN IF i = sel THEN SelectedHistBg ELSE BlueBg
    ELSE IF i = sel THEN GreenBg ELSE YellowBg

\* maxItems := 6
MaxItems == 6

\* ShowCompletions: the rows drawn, at most maxItems of them
ShowCompletions(sugg, sel) ==
    [i \in 1..(IF Len(sugg) > MaxItems THEN MaxItems ELSE Len(sugg)) |->
        [text |-> sugg[i], selected |-> (i - 1 = sel),
         background |-> RowBackground(sugg[i], i - 1, sel)]]

\* the ShowCompletions call of a step; nothing is drawn for an empty list
Drawn(sugg, sel) ==
    IF Len(sugg) > 0
    THEN <<Call("ShowCompletions", sel, ShowCompletions(sugg, sel), FALSE)>>
    ELSE <<>>

\* currentSuggestions = GetCompletions(input); selectedIndex = 0;
\* ShowCompletions()
DoShow ==
    /\ pc = "api"
    /\ \E input \in CompInputs :
          LET c == GetCompletions(history, env, input)
          IN  /\ currentSuggestions' = c
              /\ selectedIndex' = IF Len(c) > 0 THEN 0 ELSE selectedIndex
              /\ calls' = Drawn(c, 0)
    /\ UNCHANGED <<cmdBuffer, ch, pc, history, historyIndex, searchMode,
                   searchQuery, searchResults, searchIndex, currentSuggestion,
                   disk, env, keys, loaded, obs, proc, nread>>

\* t.SelectNextCompletion()
DoSelectNext ==
    /\ pc = "api"
    /\ selectedIndex' = SelectNextCompletion(currentSuggestions, selectedIndex)
    /\ calls' = Drawn(currentSuggestions, selectedIndex')
    /\ UNCHANGED <<cmdBuffer, ch, pc, history, historyIndex, searchMode,
                   searchQuery, searchResults, searchIndex, currentSuggestions,
                   currentSuggestion, disk, env, keys, loaded, obs, proc, nread>>

\* t.SelectPreviousCompletion()
DoSelectPrevious ==
    /\ pc = "api"
    /\ selectedIndex' = SelectPreviousCompletion(currentSuggestions, selectedIndex)
    /\ calls' = Drawn(currentSuggestions, selectedIndex')
    /\ UNCHANGED <<cmdBuffer, ch, pc, history, historyIndex, searchMode,
                   searchQuery, searchResults, searchIndex, currentSuggestions,
                   currentSuggestion, disk, env, keys, loaded, obs, proc, nread>>

s_sp_a_colon == <<32, 97, 58, 32>>
\* " a: "\nls : an entry that starts with a space and ends in ": "
DiskColon == FileOf(Join(<<s_sp_a_colon, s_ls>>))

DropInit ==
    ApiInit({DiskLs, DiskSpace, DiskTilde, DiskExample, DiskEmpty, DiskColon},
            {EnvTen, EnvGit, EnvBare})

DropNext == DoShow \/ DoSelectNext \/ DoSelectPrevious

SpecDrop == DropInit /\ [][DropNext]_vars

(***************************************************************************)
(* Sessions that accept candidates with Tab: a history whose entry starts  *)
(* with a space and holds ": ", and two commands on the PATH with the      *)
(* selection moved by the "5B" tail before Tab.                            *)
(***************************************************************************)
s_sp_a_colon_b == <<32, 97, 58, 32, 98>>
\* " a: b"\nls
DiskColonText == FileOf(Join(<<s_sp_a_colon_b, s_ls>>))

KeysSpaceTab == {SP, 97, TAB, CR}
KeysSelectTab == {103, 105, 53, 66, TAB}

SessionsAccept ==
    {Run(KeysSpaceTab, DiskColonText, EnvBare),
     Run(KeysSelectTab, DiskEmpty, EnvGit)}

AcceptInit == SessionInit(SessionsAccept)

AcceptNext == TabKey \/ EnterKey \/ DefaultKey \/ ReadError

SpecAccept == AcceptInit /\ [][AcceptNext]_vars

(***************************************************************************)
(* Startup and shutdown (main.go 11-30): main outside its loop, the        *)
(* goroutine that waits for a signal, the channel between the runtime and  *)
(* that goroutine, and the terminal handle both of them close.             *)
(***************************************************************************)
\* signal.Notify(sigChan, syscall.SIGINT, syscall.SIGTERM)
Signals == {"SIGINT", "SIGTERM"}

\* the process at the first statement of main
ProcStart ==
    [main |-> "notify", lis |-> "off", chan |-> <<>>, sent |-> 0,
     handle |-> "none", closes |-> 0, alive |-> TRUE, status |-> 0]

\* Terminal.Close: t.term.Close(); on a handle already closed it returns an
\* error, which both callers discard
Close(p) == [p EXCEPT !.handle = "closed", !.closes = @ + 1]

\* os.Exit(code), and the return of main (code 0): the process is gone
Exit(p, code) == [p EXCEPT !.alive = FALSE, !.status = code]

SigInit ==
    /\ proc = ProcStart
    /\ cmdBuffer = <<>> /\ ch = 0 /\ pc = "start"
    /\ history = <<>> /\ historyIndex = -1
    /\ searchMode = FALSE /\ searchQuery = <<>> /\ searchResults = <<>>
    /\ searchIndex = 0
    /\ currentSuggestions = <<>> /\ selectedIndex = 0 /\ currentSuggestion = <<>>
    /\ disk = DiskEmpty /\ env = EnvFull /\ keys = {} /\ loaded = <<>>
    /\ nread = 0 /\ calls = <<>> /\ obs = NoObs

\* sigChan := make(chan os.Signal, 1); signal.Notify(sigChan, ...)
Notify ==
    /\ proc.alive /\ proc.main = "notify"
    /\ proc' = [proc EXCEPT !.main = "new"]
    /\ UNCHANGED sessionVars

\* term, err := NewTerminal(); if err != nil { os.Exit(1) }
NewTerminalCall ==
    /\ proc.alive /\ proc.main = "new"
    /\ \/ proc' = [proc EXCEPT !.main = "go", !.handle = "open"]
       \/ proc' = Exit(proc, 1)
    /\ UNCHANGED sessionVars

\* go func() { ... }(); defer term.Close()
GoListener ==
    /\ proc.alive /\ proc.main = "go"
    /\ proc' = [proc EXCEPT !.main = "intro", !.lis = "wait"]
    /\ UNCHANGED sessionVars

\* the banner and prompt, err := term.GetPrompt(); if err != nil { os.Exit(1) }
FirstPrompt ==
    /\ proc.alive /\ proc.main = "intro"
    /\ \/ proc' = [proc EXCEPT !.main = "loop"]
       \/ proc' = Exit(proc, 1)
    /\ UNCHANGED sessionVars

\* the loop ends: exit or quit is committed, or ReadChar fails (as it does
\* once the handle is closed)
LeaveLoop ==
    /\ proc.alive /\ proc.main = "loop"
    /\ proc' = [proc EXCEPT !.main = "close"]
    /\ UNCHANGED sessionVars

\* the deferred term.Close()
MainClose ==
    /\ proc.alive /\ proc.main = "close"
    /\ proc' = [Close(proc) EXCEPT !.main = "ret"]
    /\ UNCHANGED sessionVars

\* main returns
MainReturn ==
    /\ proc.alive /\ proc.main = "ret"
    /\ proc' = Exit(proc, 0)
    /\ UNCHANGED sessionVars

\* a variant with an unbuffered channel: a signal is kept only if the
\* listener is waiting for it
DeliverUnbuffered ==
    /\ proc.alive /\ proc.main # "notify"
    /\ proc.sent < MaxSignals
    /\ \E sig \in Signals :
          proc' = [proc EXCEPT !.sent = @ + 1,
                               !.chan = IF proc.lis = "wait" /\ proc.chan = <<>>
                                        THEN <<sig>> ELSE @]
    /\ UNCHANGED sessionVars

\* SIGINT or SIGTERM arrives: the runtime sends it to sigChan without
\* blocking, so it is dropped when the one-slot buffer is full
Deliver ==
    /\ proc.alive /\ proc.main # "notify"
    /\ proc.sent < MaxSignals
    /\ \E sig \in Signals :
          proc' = [proc EXCEPT !.sent = @ + 1,
                               !.chan = IF proc.chan = <<>> THEN <<sig>> ELSE @]
    /\ UNCHANGED sessionVars

\* <-sigChan
Receive ==
    /\ proc.alive /\ proc.lis = "wait" /\ proc.chan # <<>>
    /\ proc' = [proc EXCEPT !.lis = "got", !.chan = <<>>]
    /\ UNCHANGED sessionVars

\* fmt.Print("\n")
ListenerPrint ==
    /\ proc.alive /\ proc.lis = "got"
    /\ proc' = [proc EXCEPT !.lis = "print"]
    /\ UNCHANGED sessionVars

\* the listener's term.Close()
ListenerClose ==
    /\ proc.alive /\ proc.lis = "print"
    /\ proc' = [Close(proc) EXCEPT !.lis = "closed"]
    /\ UNCHANGED sessionVars

\* the listener's os.Exit(0)
ListenerExit ==
    /\ proc.alive /\ proc.lis = "closed"
    /\ proc' = Exit(proc, 0)
    /\ UNCHANGED sessionVars

SigNext ==
    \/ Notify
    \/ NewTerminalCall
    \/ GoListener
    \/ FirstPrompt
    \/ LeaveLoop
    \/ MainClose
    \/ MainReturn
    \/ Deliver
    \/ Receive
    \/ ListenerPrint
    \/ ListenerClose
    \/ ListenerExit

\* the scheduler runs every goroutine that can take a step; the user, who
\* ends the loop, and the sender of signals owe nothing
SigFair ==
    /\ WF_vars(Notify) /\ WF_vars(NewTerminalCall) /\ WF_vars(GoListener)
    /\ WF_vars(FirstPrompt) /\ WF_vars(MainClose) /\ WF_vars(MainReturn)
    /\ WF_vars(Receive) /\ WF_vars(ListenerPrint) /\ WF_vars(ListenerClose)
    /\ WF_vars(ListenerExit)

SpecSignal == SigInit /\ [][SigNext]_vars /\ SigFair

(***************************************************************************)
(* Claims.                                                                 *)
(***************************************************************************)
\* a step of the main read: one byte taken at the top of the loop
MainRead == pc = "read" /\ nread' = nread + 1

\* the bytes of C1: printable, Backspace, or ignored by the keyboard surface
EditByte(b) == b \notin {CR, NL, TAB, CTRLR, ESC}
EditOnly == pc # "api" /\ \A k \in keys : EditByte(k)

\* the reference Line Buffer: Append, DeleteLast, no-op
RefLineBuffer(buf, b) ==
    IF b >= 32 /\ b <= 126 THEN Append(buf, b)
    ELSE IF b \in {127, 8}
         THEN IF buf = <<>> THEN buf ELSE SubSeq(buf, 1, Len(buf) - 1)
         ELSE buf

TailIs5AB(buf) ==
    /\ Len(buf) >= 2
    /\ buf[Len(buf) - 1] = 53
    /\ buf[Len(buf)] \in {65, 66}

\* C1 as stated: in a session fed only printable, Backspace and ignored
\* bytes, the buffer after each byte is the reference Line Buffer's.
C1_AsStated ==
    [][(EditOnly /\ MainRead /\ ~searchMode)
          => cmdBuffer' = RefLineBuffer(cmdBuffer, ch')]_vars

\* C1, amended: the buffer after each byte is the reference Line Buffer's
\* unless the buffer ends in "5A" or "5B" and the byte is not Backspace:
\* then the buffer loses these two characters and the byte is not appended.
C1_LineBuffer ==
    [][(EditOnly /\ MainRead /\ ~searchMode)
          => cmdBuffer' =
                IF TailIs5AB(cmdBuffer) /\ ch' \notin {127, 8}
                THEN SubSeq(cmdBuffer, 1, Len(cmdBuffer) - 2)
                ELSE RefLineBuffer(cmdBuffer, ch')]_vars

\* C1 witness: 'x' was read and the buffer is empty, its "5A"/"5B" taken
C1_Witness == EditOnly /\ nread = 3 /\ ch = 120 /\ cmdBuffer = <<>>

\* the calls of a step that hand the line to the history or to a handler
Handed(cs) ==
    SelectSeq(cs, LAMBDA c : c.op \in {"AddToHistory", "builtin", "ExecuteCommand"})

OnlySpaces(buf) == \A i \in 1..Len(buf) : buf[i] \in {9, 10, 11, 12, 13, 32}

\* a commit: Enter read by the main read, in normal or in search mode
EnterRead == MainRead /\ ch' \in {CR, NL}

CommitLeaves ==
    pc' = "read" => cmdBuffer' = <<>> /\ historyIndex' = -1 /\ ~searchMode'

CommitOfEmpty ==
    cmdBuffer = <<>> => Handed(calls') = <<>> /\ history' = history /\ disk' = disk

\* C2 as stated: on Enter a non-empty buffer goes to AddToHistory once and
\* then to exactly one of the built-in handler and ExecuteCommand; an
\* empty one touches neither; a session that goes on has an empty buffer,
\* historyIndex -1 and search mode off.
C2_AsStated ==
    [][EnterRead =>
          /\ cmdBuffer # <<>> =>
                LET h == Handed(calls')
                IN  /\ Len(h) = 2
                    /\ h[1].op = "AddToHistory" /\ h[1].arg = cmdBuffer
                    /\ h[2].op \in {"builtin", "ExecuteCommand"}
                    /\ h[2].arg = cmdBuffer
          /\ CommitOfEmpty
          /\ CommitLeaves]_vars

\* C2, amended: as stated for a buffer holding a non-space character; a
\* non-empty buffer of white space only goes to AddToHistory once and to
\* no handler.
C2_Commit ==
    [][EnterRead =>
          /\ cmdBuffer # <<>> =>
                LET h == Handed(calls')
                IN  /\ Len(h) = IF OnlySpaces(cmdBuffer) THEN 1 ELSE 2
                    /\ h[1].op = "AddToHistory" /\ h[1].arg = cmdBuffer
                    /\ Len(h) = 2 =>
                          /\ h[2].op \in {"builtin", "ExecuteCommand"}
                          /\ h[2].arg = cmdBuffer
          /\ CommitOfEmpty
          /\ CommitLeaves]_vars

\* C2 witness: Enter in search mode has handed a previewed line to
\* AddToHistory and then to ExecuteCommand, and the session goes on
C2_Witness ==
    /\ pc = "read" /\ ch \in {CR, NL}
    /\ Len(calls) = 3
    /\ calls[1].op = "ExitHistorySearch"
    /\ calls[2].op = "AddToHistory"
    /\ calls[3].op = "ExecuteCommand" /\ calls[3].arg = calls[2].arg
    /\ cmdBuffer = <<>> /\ historyIndex = -1 /\ ~searchMode

NoAdjacentEqual(h) == \A i \in 1..(Len(h) - 1) : h[i] # h[i + 1]

\* C3 as stated: after Load of any file and any Add calls, the history
\* holds no two consecutive equal entries.
C3_AsStated == NoAdjacentEqual(history)

\* an Add that was accepted: the list changed
AddAccepted ==
    /\ Len(calls') = 1 /\ calls'[1].op = "AddToHistory"
    /\ history' # history

\* C4 as stated: the history holds at most 1000 entries, and an accepted
\* Add on 1000 entries yields the entries but the oldest, then the command.
C4_AsStated ==
    /\ [](Len(history) <= 1000)
    /\ [][(AddAccepted /\ Len(history) = 1000)
             => history' = Append(SubSeq(history, 2, 1000), calls'[1].arg)]_vars

\* C5: from an empty history, with newline-free commands and successful
\* saves, Load of the persisted file gives the in-memory history (and,
\* once a command was saved, does not fail).
C5_RoundTrip ==
    (/\ pc = "api"
     /\ loaded = <<>>
     /\ env.writable /\ env.home # <<>>
     /\ \A i \in 1..Len(history) : \A j \in 1..Len(history[i]) : history[i][j] # 10)
        => /\ loadHistory(disk, env).history = history
           /\ history # <<>> => ~loadHistory(disk, env).err

\* C5 witness: two commands added to an empty history and saved
C5_Witness ==
    /\ pc = "api" /\ loaded = <<>> /\ env.writable /\ env.home # <<>>
    /\ Len(history) = 2
    /\ \A i \in 1..2 : \A j \in 1..Len(history[i]) : history[i][j] # 10
    /\ disk.state = "file" /\ disk.data # <<>>

\* C6 as stated: historyIndex is -1 after every commit and after every
\* printable character typed into the line buffer.
C6_AsStated ==
    [][/\ EnterRead => (pc' = "read" => historyIndex' = -1)
       /\ (MainRead /\ ~searchMode /\ ch' >= 32 /\ ch' <= 126
             /\ cmdBuffer' = Append(cmdBuffer, ch'))
            => historyIndex' = -1]_vars

\* a printable character typed into the line buffer
TypedPrintable ==
    /\ MainRead /\ ~searchMode /\ ch' >= 32 /\ ch' <= 126
    /\ cmdBuffer' = Append(cmdBuffer, ch')

\* Up pressed: the last byte of an arrow sequence calls GetPreviousHistory
UpPressed ==
    /\ pc \in {"esc1", "esc2"} /\ pc' = "read" /\ ch' = 65
    /\ Len(calls') = 1 /\ calls'[1].op = "GetPreviousHistory"

\* C6, amended: historyIndex is -1 after every commit; a printable
\* character typed into the line buffer leaves historyIndex as it was, so
\* that Up, a typed character, Up returns the entry before the one
\* recalled first (the oldest staying) and not the newest again.
C6_Index ==
    [][/\ EnterRead => historyIndex' = -1
       /\ TypedPrintable => historyIndex' = historyIndex
       /\ (UpPressed /\ historyIndex >= 0 /\ ch >= 32 /\ ch <= 126
              /\ cmdBuffer # <<>> /\ cmdBuffer[Len(cmdBuffer)] = ch) =>
             /\ historyIndex' = IF historyIndex > 0 THEN historyIndex - 1 ELSE 0
             /\ calls'[1].ret = history[historyIndex' + 1]
             /\ cmdBuffer' = history[historyIndex' + 1]]_vars

\* C6 witness: a character was typed after Up recalled the newest entry,
\* and historyIndex still points at that entry
C6_Witness ==
    /\ pc = "read" /\ ~searchMode /\ ch >= 32 /\ ch <= 126 /\ calls = <<>>
    /\ Len(history) >= 2 /\ historyIndex = Len(history) - 1
    /\ cmdBuffer = Append(history[Len(history)], ch)

\* the step is a call of the method op
Called(op) == Len(calls') = 1 /\ calls'[1].op = op

\* C7: GetPreviousHistory returns "" and leaves historyIndex alone on an
\* empty history; from -1 it goes to the newest entry; from above 0 it
\* steps back by one; at 0 it stays at 0 with the oldest entry.
C7_Previous ==
    [][Called("GetPreviousHistory") =>
          LET n == Len(history)
              ret == calls'[1].ret
          IN  /\ n = 0 => ret = <<>> /\ historyIndex' = historyIndex
              /\ (n > 0 /\ historyIndex = -1) =>
                    historyIndex' = n - 1 /\ ret = history[n]
              /\ (n > 0 /\ historyIndex > 0) =>
                    historyIndex' = historyIndex - 1 /\ ret = history[historyIndex]
              /\ (n > 0 /\ historyIndex = 0) =>
                    historyIndex' = 0 /\ ret = history[1]
              /\ history' = history]_vars

\* C7 witness: Previous has returned the oldest of several entries
C7_Witness ==
    /\ pc = "api" /\ Len(calls) = 1 /\ calls[1].op = "GetPreviousHistory"
    /\ Len(history) >= 2 /\ historyIndex = 0 /\ calls[1].ret = history[1]

\* C8: GetNextHistory returns "" and stays at -1 when not navigating;
\* below the newest entry it steps forward and returns that entry; at the
\* newest entry it returns "" and sets -1. Hence Previous then Next, from
\* not navigating on a non-empty history, returns "" and ends at -1.
C8_Next ==
    [][/\ Called("GetNextHistory") =>
             LET n == Len(history)
                 ret == calls'[1].ret
             IN  /\ historyIndex = -1 => ret = <<>> /\ historyIndex' = -1
                 /\ (historyIndex >= 0 /\ historyIndex < n - 1) =>
                       historyIndex' = historyIndex + 1 /\ ret = history[historyIndex + 2]
                 /\ (n > 0 /\ historyIndex = n - 1) =>
                       ret = <<>> /\ historyIndex' = -1
                 /\ history' = history
       /\ (historyIndex = -1 /\ Len(history) > 0) =>
             LET p == GetPreviousHistory(history, historyIndex)
                 q == GetNextHistory(history, p.idx)
             IN  p.ret = history[Len(history)] /\ q.ret = <<>> /\ q.idx = -1]_vars

\* C8 witness: Next has stepped forward to an entry below the newest
C8_Witness ==
    /\ pc = "api" /\ Len(calls) = 1 /\ calls[1].op = "GetNextHistory"
    /\ Len(history) >= 3 /\ historyIndex = 1 /\ calls[1].ret = history[2]

LowerByte(b) == IF b >= 65 /\ b <= 90 THEN b + 32 ELSE b

\* sub occurs in s, letters compared without case
OccursNoCase(s, sub) ==
    \E k \in 0..(Len(s) - Len(sub)) :
        \A j \in 1..Len(sub) : LowerByte(s[k + j]) = LowerByte(sub[j])

\* the positions of h whose entry holds q, the k-th from the newest
MatchAt(h, q) == {i \in 1..Len(h) : OccursNoCase(h[i], q)}
KthNewest(M, k) == CHOOSE i \in M : Cardinality({j \in M : j >= i}) = k

\* C9: UpdateHistorySearch(q) sets the match list to the entries holding q
\* without regard to case, newest first, one per matching position, the
\* cursor to 0 (or -1 with no match), and returns the first match alone;
\* [foo, bar, foobar] with foo gives [foobar, foo].
C9_Update ==
    [][Called("UpdateHistorySearch") =>
          LET q == calls'[1].arg
              M == MatchAt(history, q)
              res == searchResults'
          IN  /\ Len(res) = Cardinality(M)
              /\ \A k \in 1..Len(res) : res[k] = history[KthNewest(M, k)]
              /\ searchIndex' = IF M = {} THEN -1 ELSE 0
              /\ calls'[1].ret = IF M = {} THEN <<>> ELSE <<res[1]>>
              /\ (history = <<s_foo, s_bar, s_foobar>> /\ q = s_foo)
                    => res = <<s_foobar, s_foo>>]_vars

\* C9 witness: the example, after UpdateHistorySearch("foo")
C9_Witness ==
    /\ pc = "api" /\ Len(calls) = 1 /\ calls[1].op = "UpdateHistorySearch"
    /\ history = <<s_foo, s_bar, s_foobar>> /\ calls[1].arg = s_foo
    /\ searchResults = <<s_foobar, s_foo>> /\ searchIndex = 0

\* the cursor after k calls of GetNextSearchResult / GetPreviousSearchResult
RECURSIVE NextTimes(_, _, _)
NextTimes(res, idx, k) ==
    IF k = 0 THEN idx ELSE NextTimes(res, GetNextSearchResult(res, idx).index, k - 1)

RECURSIVE PreviousTimes(_, _, _)
PreviousTimes(res, idx, k) ==
    IF k = 0 THEN idx
    ELSE PreviousTimes(res, GetPreviousSearchResult(res, idx).index, k - 1)

\* C10: on n > 0 matches GetNextSearchResult moves the cursor to
\* (cursor+1) mod n and GetPreviousSearchResult to (cursor-1) mod n, each
\* returning the entry there; n calls of either come back to the start and
\* Next then Previous restores the cursor; on no matches both return ""
\* and change nothing.
C10_Cycle ==
    [][LET n == Len(searchResults)
       IN  /\ Called("GetNextSearchResult") =>
                 IF n = 0
                 THEN calls'[1].ret = <<>> /\ searchIndex' = searchIndex
                 ELSE /\ searchIndex' = (searchIndex + 1) % n
                      /\ calls'[1].ret = searchResults[searchIndex' + 1]
           /\ Called("GetPreviousSearchResult") =>
                 IF n = 0
                 THEN calls'[1].ret = <<>> /\ searchIndex' = searchIndex
                 ELSE /\ searchIndex' = (searchIndex - 1 + n) % n
                      /\ calls'[1].ret = searchResults[searchIndex' + 1]
           /\ (Called("GetNextSearchResult") \/ Called("GetPreviousSearchResult"))
                 => searchResults' = searchResults /\ searchQuery' = searchQuery
           /\ n > 0 =>
                 /\ NextTimes(searchResults, searchIndex, n) = searchIndex
                 /\ PreviousTimes(searchResults, searchIndex, n) = searchIndex
                 /\ GetPreviousSearchResult(searchResults,
                        GetNextSearchResult(searchResults, searchIndex).index).index
                      = searchIndex]_vars

\* C10 witness: Previous has wrapped from the first match to the last
C10_Witness ==
    /\ pc = "api" /\ Len(calls) = 1 /\ calls[1].op = "GetPreviousSearchResult"
    /\ Len(searchResults) >= 2 /\ searchIndex = Len(searchResults) - 1
    /\ calls[1].ret = searchResults[Len(searchResults)]

\* C11 as stated: after ESC in search mode the buffer is what it was when
\* Ctrl+R started the search.
C11_AsStated ==
    [][(MainRead /\ searchMode /\ ch' = ESC) => cmdBuffer' = obs.searchStart]_vars

\* C12 as stated: Ctrl+R outside search mode enters search mode with an
\* empty query, no results and cursor -1; in search mode it leaves it.
C12_AsStated ==
    [][(MainRead /\ ch' = CTRLR) =>
          IF ~searchMode
          THEN /\ searchMode' /\ searchQuery' = <<>>
               /\ searchResults' = <<>> /\ searchIndex' = -1
          ELSE ~searchMode']_vars

\* C12, amended: Ctrl+R outside search mode enters search mode with an
\* empty query, no results and cursor -1; in search mode it is dropped:
\* search mode stays on and query, results, cursor and buffer stay.
C12_CtrlR ==
    [][(MainRead /\ ch' = CTRLR) =>
          IF ~searchMode
          THEN /\ searchMode' /\ searchQuery' = <<>>
               /\ searchResults' = <<>> /\ searchIndex' = -1
               /\ cmdBuffer' = cmdBuffer
          ELSE /\ searchMode'
               /\ UNCHANGED <<searchQuery, searchResults, searchIndex,
                              cmdBuffer, history, historyIndex>>]_vars

\* C12 witness: Ctrl+R was read in search mode, after a query with matches
C12_Witness ==
    /\ pc = "read" /\ ch = CTRLR /\ searchMode
    /\ searchQuery # <<>> /\ searchResults # <<>>

\* the byte read by this step ends the byte sequence seq that an ESC read
\* in normal mode began
SeqEnds(seq) ==
    /\ nread' = nread + 1
    /\ obs.escBytes # <<>>
    /\ Append(obs.escBytes, ch') = seq

UpSeqs == {<<ESC, 65>>, <<ESC, 91, 65>>, <<ESC, 79, 65>>}
DownSeqs == {<<ESC, 66>>, <<ESC, 91, 66>>, <<ESC, 79, 66>>}
RightSeqs == {<<ESC, 91, 67>>, <<ESC, 79, 67>>}
CtrlUpSeqs == {<<ESC, 91, 53, 65>>, <<ESC, 91, 49, 59, 53, 65>>}
CtrlDownSeqs == {<<ESC, 91, 53, 66>>, <<ESC, 91, 49, 59, 53, 66>>}

\* C13 as stated: ESC A/B, ESC [ A/B/C and ESC O A/B/C are Up/Down/Right:
\* Up and Down recall history into the buffer, Right accepts the selected
\* candidate when candidates are held, and no byte of the sequence gets
\* into the buffer.
C13_AsStated ==
    [][/\ (\E seq \in UpSeqs : SeqEnds(seq)) =>
             LET r == GetPreviousHistory(history, historyIndex)
             IN  /\ calls' = <<Call("GetPreviousHistory", <<>>, r.ret, FALSE)>>
                 /\ historyIndex' = r.idx
                 /\ cmdBuffer' = IF r.ret # <<>> THEN r.ret ELSE obs.escBuf
       /\ (\E seq \in DownSeqs : SeqEnds(seq)) =>
             LET r == GetNextHistory(history, historyIndex)
             IN  /\ calls' = <<Call("GetNextHistory", <<>>, r.ret, FALSE)>>
                 /\ historyIndex' = r.idx
                 /\ cmdBuffer' = r.ret
       /\ (\E seq \in RightSeqs : SeqEnds(seq)) =>
             LET selected == GetSelectedCompletion(currentSuggestions, selectedIndex)
             IN  cmdBuffer' = IF selected # <<>> THEN WithSpace(selected)
                              ELSE obs.escBuf]_vars

\* C14 as stated: ESC [ 5 A/B and ESC [ 1 ; 5 A/B are CtrlUp/CtrlDown: the
\* selection moves to the previous/next candidate with wraparound, the
\* candidates being computed first if none are held, and no byte of the
\* sequence gets into the buffer.
C14_AsStated ==
    [][(\E seq \in CtrlUpSeqs \cup CtrlDownSeqs : SeqEnds(seq)) =>
          LET c == IF Len(currentSuggestions) = 0
                   THEN GetCompletions(history, env, obs.escBuf)
                   ELSE currentSuggestions
              sel == IF Len(currentSuggestions) = 0 /\ Len(c) > 0
                     THEN 0 ELSE selectedIndex
          IN  /\ cmdBuffer' = obs.escBuf
              /\ currentSuggestions' = c
              /\ selectedIndex' =
                    IF \E seq \in CtrlUpSeqs : SeqEnds(seq)
                    THEN SelectPreviousCompletion(c, sel)
                    ELSE SelectNextCompletion(c, sel)]_vars

\* the sequences that are a documented key
KeySeqs == UpSeqs \cup DownSeqs \cup RightSeqs \cup CtrlUpSeqs \cup CtrlDownSeqs

\* C15 as stated: an ESC-led sequence that does not resolve to a key, such
\* as ESC [ 5 ;, gives no key event and leaves the buffer as it was before
\* the ESC.
C15_AsStated ==
    [][(/\ nread' = nread + 1
        /\ obs.escBytes # <<>>
        /\ Append(obs.escBytes, ch') \notin KeySeqs \cup EscPrefixes) =>
          /\ cmdBuffer' = obs.escBuf
          /\ calls' = <<>>
          /\ UNCHANGED <<history, historyIndex, currentSuggestions, selectedIndex>>]_vars

\* a step that is one call of GetCompletions
CompletesFor(input) ==
    /\ calls' # <<>>
    /\ calls'[1].op = "GetCompletions"
    /\ calls'[1].arg = input

\* the position of the last occurrence of x in m
LastAt(m, x) == CHOOSE k \in 1..Len(m) : m[k] = x /\ \A j \in (k + 1)..Len(m) : m[j] # x

\* the distinct entries of m, the one used most recently first, at most n
NewestDistinct(m, n) ==
    LET vals == {m[k] : k \in 1..Len(m)}
    IN  [i \in 1..Min(n, Cardinality(vals)) |->
            CHOOSE x \in vals :
                Cardinality({y \in vals : LastAt(m, y) > LastAt(m, x)}) = i - 1]

\* C16: for the empty buffer GetCompletions returns the up-to-3 most recent
\* distinct history entries, newest first with later repeats skipped, each
\* tagged "HIST: ", and nothing else.
C16_Empty ==
    [][CompletesFor(<<>>) =>
          calls'[1].ret = Tagged(HistTag, NewestDistinct(history, 3))]_vars

\* the example: history [ls, ls, git status] gives
\* ["HIST: git status", "HIST: ls"]
C16_Witness ==
    /\ calls # <<>>
    /\ calls[1].op = "GetCompletions"
    /\ calls[1].arg = <<>>
    /\ history = <<s_ls, s_ls, s_git_status>>
    /\ calls[1].ret = <<HistTag \o s_git_status, HistTag \o s_ls>>


\* a buffer that is one token with no whitespace
SingleToken(input) ==
    input # <<>> /\ \A i \in 1..Len(input) : input[i] \notin AsciiSpace

\* the history entries that have tok as a prefix, letter case ignored
PrefixMatches(h, tok) ==
    SelectSeq(h, LAMBDA c : HasPrefix(ToLower(c), ToLower(tok)))

\* the built-in and PATH names that have tok as a prefix
CommandNames(e, tok) == {c \in Builtins \cup e.path : HasPrefix(c, tok)}

\* the n lexicographically first strings of S, in order
Smallest(S, n) ==
    [i \in 1..Min(n, Cardinality(S)) |->
        CHOOSE x \in S : Cardinality({y \in S : StrLess(y, x)}) = i - 1]

\* C17: for a single whitespace-free token that some history entry has as a
\* case-insensitive prefix, GetCompletions returns the up-to-3 distinct
\* matching history entries, newest first and tagged "HIST: ", followed by
\* the lexicographically first min(n, 3) of the n matching command names,
\* tagged "CMD: ".
C17_Command ==
    [][\A input \in CompInputs :
          (/\ CompletesFor(input)
           /\ SingleToken(input)
           /\ PrefixMatches(history, input) # <<>>) =>
             calls'[1].ret =
                 Tagged(HistTag, NewestDistinct(PrefixMatches(history, input), 3))
                 \o Tagged(CmdTag, Smallest(CommandNames(env, input), 3))]_vars

\* the example: 10 matching executables and 1 matching history entry for the
\* token g give 1 history entry followed by 3 command entries
C17_Witness ==
    /\ calls # <<>>
    /\ calls[1].op = "GetCompletions"
    /\ calls[1].arg = s_g
    /\ Cardinality(CommandNames(env, s_g)) = 10
    /\ Len(PrefixMatches(history, s_g)) = 1
    /\ calls[1].ret = <<HistTag \o s_git_status, CmdTag \o <<103, 48>>,
                        CmdTag \o <<103, 49>>, CmdTag \o <<103, 50>> >>

\* C18 as stated: for a single whitespace-free token with no matching
\* history entry, GetCompletions returns the lexicographically first
\* min(n, 6) of the n matching command names, tagged "CMD: ", and nothing
\* else.
C18_AsStated ==
    [][\A input \in CompInputs :
          (/\ CompletesFor(input)
           /\ SingleToken(input)
           /\ PrefixMatches(history, input) = <<>>) =>
             calls'[1].ret = Tagged(CmdTag, Smallest(CommandNames(env, input), 6))]_vars


\* a buffer of several tokens, or of one token followed by a space
PathBuffer(input) ==
    /\ Len(Fields(input)) > 0
    /\ Len(Fields(input)) > 1 \/ Contains(input, <<SP>>)

\* the final token as typed: empty after a trailing space
FinalToken(input) ==
    IF HasSuffix(input, <<SP>>) THEN <<>> ELSE Fields(input)[Len(Fields(input))]

\* the final token with a leading ~ replaced by the home directory
Expanded(e, tok) ==
    IF HasPrefix(tok, <<126>>) /\ HomeDirOk(e)
    THEN e.home \o SubSeq(tok, 2, Len(tok)) ELSE tok

\* the directory the final token names
TokenDir(e, tok) ==
    IF Expanded(e, tok) # <<>> THEN PathDir(Expanded(e, tok)) ELSE s_dot

\* the directory entries the final token names, sorted and tagged "CMD: "
PathCandidates(e, tok) ==
    LET arg == Expanded(e, tok)
        dir == TokenDir(e, tok)
        pre == IF arg # <<>> THEN PathBase(arg) ELSE <<>>
    IN  IF ~ReadDirOk(e, dir) THEN <<>>
        ELSE SortStrings({CmdTag \o (IF f.isDir THEN f.name \o s_slash ELSE f.name) :
                             f \in {g \in ReadDir(e, dir) : HasPrefix(g.name, pre)}})

\* C19 as stated: for a buffer of several tokens or ending in a space, the
\* "HIST: " candidates are the up-to-3 distinct history entries, newest
\* first, that contain the final token as typed (before ~ is expanded); they
\* come before the path candidates, which are cut to 3 when there is a
\* history candidate and to 6 otherwise.  Stated for the calls whose
\* directory can be read.
C19_AsStated ==
    [][\A input \in CompInputs :
          (/\ CompletesFor(input)
           /\ PathBuffer(input)
           /\ ReadDirOk(env, TokenDir(env, FinalToken(input)))) =>
             LET tok == FinalToken(input)
                 hist == NewestDistinct(
                             SelectSeq(history, LAMBDA c : Contains(c, tok)), 3)
             IN  calls'[1].ret =
                     Tagged(HistTag, hist)
                     \o Take(PathCandidates(env, tok),
                             IF hist # <<>> THEN 3 ELSE 6)]_vars

\* C20 as stated: every string GetCompletions returns begins with "HIST: "
\* or "CMD: ", whatever the buffer and the history.
C20_AsStated ==
    [][(calls' # <<>> /\ calls'[1].op = "GetCompletions") =>
          \A i \in 1..Len(calls'[1].ret) :
              \/ HasPrefix(calls'[1].ret[i], HistTag)
              \/ HasPrefix(calls'[1].ret[i], CmdTag)]_vars


\* C21 as stated: when the directory of the final token cannot be read,
\* GetCompletions gives no path candidate but still returns the "HIST: "
\* candidates, the up-to-3 distinct history entries containing the token;
\* the result is empty only without such entries.
C21_AsStated ==
    [][\A input \in CompInputs :
          (/\ CompletesFor(input)
           /\ PathBuffer(input)
           /\ ~ReadDirOk(env, TokenDir(env, FinalToken(input)))) =>
             calls'[1].ret =
                 Tagged(HistTag,
                        NewestDistinct(
                            SelectSeq(history,
                                      LAMBDA c : Contains(c, Expanded(env, FinalToken(input)))),
                            3))]_vars


\* the candidates of GetCompletions without their tags, repeats dropped
StrippedCandidates(h, e, input) ==
    LET c == GetCompletions(h, e, input)
    IN  Dedup([i \in 1..Len(c) |-> StripTag(c[i])])

\* the first string of s that has input as a prefix, letter case ignored
FirstWithPrefix(s, input) ==
    LET ok == {i \in 1..Len(s) : HasPrefix(ToLower(s[i]), ToLower(input))}
    IN  IF ok = {} THEN <<>> ELSE s[CHOOSE i \in ok : \A j \in ok : i <= j]

\* C22 as stated: ShowInlineSuggestion(buffer) sets the suggestion to the
\* first candidate of GetCompletions(buffer), tag stripped and repeats
\* dropped, whose lowercase text starts with the lowercase buffer, and
\* draws the rest of that text after the buffer; without such a candidate
\* the suggestion becomes empty.
C22_AsStated ==
    [][\A input \in SuggestInputs :
          (/\ calls' # <<>>
           /\ calls'[1].op = "ShowInlineSuggestion"
           /\ calls'[1].arg = input) =>
             LET want == FirstWithPrefix(StrippedCandidates(history, env, input), input)
             IN  /\ currentSuggestion' = want
                 /\ calls'[1].ret = SubSeq(want, Len(input) + 1, Len(want))]_vars


\* ExecuteCommand hands every command but cd to the external shell
ExternalRun(call) ==
    /\ call.op = "ExecuteCommand"
    /\ Fields(call.arg)[1] # s_cd

\* C23 as stated: a committed line whose command token is a built-in (cd,
\* clear, exit, quit, help) never makes the external shell run, and a
\* committed exit or quit, also in the form "exit " that accepting the
\* candidate exit leaves in the buffer, ends the session.
C23_AsStated ==
    [][/\ \A i \in 1..Len(calls') :
             ExternalRun(calls'[i]) => Fields(calls'[i].arg)[1] \notin Builtins
       /\ (/\ MainRead
           /\ ~searchMode
           /\ ch' \in {CR, NL}
           /\ Fields(cmdBuffer) \in {<<s_exit>>, <<s_quit>>}) => pc' = "exited"]_vars


\* the position in cs of the call of ExecuteCommand, 0 if none
ExecAt(cs) ==
    IF \E i \in 1..Len(cs) : cs[i].op = "ExecuteCommand"
    THEN CHOOSE i \in 1..Len(cs) : cs[i].op = "ExecuteCommand"
    ELSE 0

\* C24: whatever ExecuteCommand returns for a committed line the loop goes
\* on to the next read with the line recorded in the history and the line
\* buffer empty; an error is followed by one inline "Error: " line and no
\* error by none.
C24_ExecError ==
    [][ExecAt(calls') > 0 =>
          LET i == ExecAt(calls')
              line == calls'[i].arg
          IN  /\ pc' = "read"
              /\ cmdBuffer' = <<>>
              /\ history' # <<>> /\ history'[Len(history')] = line
              /\ IF calls'[i].err
                 THEN /\ Len(calls') = i + 1
                      /\ calls'[i + 1].op = "WriteLine"
                      /\ calls'[i + 1].arg = s_ErrExec
                 ELSE Len(calls') = i]_vars

\* C24 witness: ExecuteCommand has failed for the committed line foo, its
\* error line is written, and the loop is at the next read
C24_Witness ==
    /\ pc = "read"
    /\ ExecAt(calls) > 0
    /\ calls[ExecAt(calls)].err
    /\ calls[ExecAt(calls)].arg = s_foo
    /\ calls[Len(calls)].op = "WriteLine"
    /\ cmdBuffer = <<>>
    /\ history[Len(history)] = s_foo

\* the call of loadHistory at startup: its file, and what it returned
AtStartup == nread = 0 /\ calls # <<>> /\ calls[1].op = "loadHistory"

\* a file that cannot be read leaves an empty history and an error
LoadOfUnreadable ==
    (AtStartup /\ calls[1].arg.state = "unreadable") =>
        /\ calls[1].err /\ history = <<>>
        /\ pc # "exited"

\* a commit whose AddToHistory failed to write: the error is reported and
\* written, the command is the newest entry in memory, the handler of the
\* line is still called and the loop goes on
FailedSave ==
    (/\ EnterRead
     /\ \E i \in 1..Len(calls') : calls'[i].op = "AddToHistory" /\ calls'[i].err) =>
        LET i == CHOOSE i \in 1..Len(calls') : calls'[i].op = "AddToHistory"
            h == Handed(calls')
        IN  /\ history' = AddTrim(history, cmdBuffer)
            /\ calls'[i + 1].op = "WriteLine" /\ calls'[i + 1].arg = s_ErrSave
            /\ Len(Fields(cmdBuffer)) > 0 =>
                  /\ Len(h) = 2
                  /\ h[2].op \in {"builtin", "ExecuteCommand"}
                  /\ h[2].arg = cmdBuffer
            /\ cmdBuffer \notin {s_exit, s_quit} => pc' = "read"

\* C25 as stated: history file failures never abort the session: a missing
\* file at Load is created empty and gives an empty history with no error;
\* any other read failure gives an error (a warning) and an empty history
\* while startup goes on; a write failure in Add is reported while the
\* command stays appended in memory, is still executed, and the loop
\* continues.
C25_AsStated ==
    /\ [](/\ (AtStartup /\ calls[1].arg.state = "missing") =>
                /\ ~calls[1].err /\ history = <<>>
                /\ disk = FileOf(<<>>)
                /\ pc # "exited"
          /\ LoadOfUnreadable)
    /\ [][FailedSave]_vars

\* C25, amended: as stated, but a missing file is created only where it can
\* be written; where it cannot, Load returns an error, the file stays
\* missing, the history is empty and startup goes on.
C25_Files ==
    /\ [](/\ (AtStartup /\ calls[1].arg.state = "missing") =>
                /\ history = <<>>
                /\ pc # "exited"
                /\ IF env.writable
                   THEN ~calls[1].err /\ disk = FileOf(<<>>)
                   ELSE calls[1].err /\ disk = calls[1].arg
          /\ LoadOfUnreadable)
    /\ [][FailedSave]_vars

\* C25 witness: the file was missing and could not be created, the line l
\* was committed, its save failed, and it is in memory, executed, with the
\* loop at the next read
C25_Witness ==
    /\ pc = "read" /\ ch \in {CR, NL}
    /\ disk.state = "missing" /\ loaded = <<>>
    /\ history = << <<108>> >>
    /\ Len(calls) >= 3
    /\ calls[1].op = "AddToHistory" /\ calls[1].err
    /\ calls[2].op = "WriteLine"
    /\ calls[3].op = "ExecuteCommand"


C27_AsStated ==
    (pc = "read" /\ ~searchMode /\ currentSuggestions # <<>>) =>
        currentSuggestions = GetCompletions(history, env, cmdBuffer)



\* the source tag of a dropdown row
SourceTag(text) ==
    IF HasPrefix(text, HistTag) THEN "HIST"
    ELSE IF HasPrefix(text, CmdTag) THEN "CMD" ELSE "none"

\* C28: in every dropdown drawn by ShowCompletions the selected row has a
\* background different from that of every non-selected row with the same
\* source tag, for CMD rows and HIST rows alike.
C28_AsStated ==
    \A k \in 1..Len(calls) :
        calls[k].op = "ShowCompletions" =>
            \A i, j \in 1..Len(calls[k].ret) :
                LET a == calls[k].ret[i]
                    b == calls[k].ret[j]
                IN  (a.selected /\ ~b.selected
                        /\ SourceTag(a.text) = SourceTag(b.text))
                        => a.background # b.background


\* C29: in every reachable state -1 <= historyIndex <= len(history) - 1,
\* across Up, Down, typing, search mode and commits, including a commit
\* that evicts the oldest entry of a history at the size cap.
C29_Index ==
    /\ historyIndex >= -1
    /\ historyIndex <= Len(history) - 1

\* after a commit that evicted the oldest entry, Up has put the cursor on
\* the newest entry
C29_Witness ==
    /\ Len(loaded) >= HistoryCap
    /\ Len(history) = HistoryCap
    /\ history[HistoryCap] = s_ls
    /\ historyIndex = HistoryCap - 1


\* the index and length part of C30 alone
C30_Range ==
    currentSuggestions # <<>> =>
        /\ 0 <= selectedIndex
        /\ selectedIndex < Len(currentSuggestions)
        /\ Len(currentSuggestions) <= MaxItems

\* C30: whenever currentSuggestions is non-empty,
\* 0 <= selectedIndex < len(currentSuggestions) <= 6, and
\* GetSelectedCompletion does not return the empty string.
C30_AsStated ==
    currentSuggestions # <<>> =>
        /\ 0 <= selectedIndex
        /\ selectedIndex < Len(currentSuggestions)
        /\ Len(currentSuggestions) <= MaxItems
        /\ GetSelectedCompletion(currentSuggestions, selectedIndex) # <<>>


\* Down pressed: the last byte of an arrow sequence calls GetNextHistory
DownArrowPressed ==
    /\ pc \in {"esc1", "esc2"} /\ pc' = "read" /\ ch' = 66
    /\ Len(calls') = 1 /\ calls'[1].op = "GetNextHistory"

\* C31: a Down arrow pressed while historyIndex = -1, and an Up arrow
\* pressed while the history is empty, leave the line buffer unchanged.
C31_AsStated ==
    [][/\ (DownArrowPressed /\ historyIndex = -1) => cmdBuffer' = cmdBuffer
       /\ (UpPressed /\ history = <<>>) => cmdBuffer' = cmdBuffer]_vars

\* the Up half of C31 alone
C31_UpOnEmpty ==
    [][(UpPressed /\ history = <<>>) => cmdBuffer' = cmdBuffer]_vars


\* a candidate without its source tag
Untagged(c) ==
    IF HasPrefix(c, HistTag) THEN SubSeq(c, Len(HistTag) + 1, Len(c))
    ELSE IF HasPrefix(c, CmdTag) THEN SubSeq(c, Len(CmdTag) + 1, Len(c))
    ELSE c

\* Tab pressed in normal mode while the candidate list is not empty
TabAccepts ==
    /\ MainRead /\ ~searchMode /\ ch' = TAB
    /\ currentSuggestions # <<>>

\* the line an acceptance of the selected candidate is to leave
AcceptedLine ==
    LET text == Untagged(currentSuggestions[selectedIndex + 1])
    IN  IF \E k \in 1..Len(text) : text[k] = SP THEN text ELSE Append(text, SP)

\* C32: accepting a candidate with Tab sets the line buffer to the selected
\* candidate's text without its source tag, followed by one space iff the
\* text holds no space, keeping nothing of the previous buffer; the list is
\* then recomputed for the new buffer and the selection index is 0.
C32_AsStated ==
    [][TabAccepts =>
          /\ cmdBuffer' = AcceptedLine
          /\ currentSuggestions' = GetCompletions(history, env, cmdBuffer')
          /\ selectedIndex' = 0]_vars


\* C32 without the index: the line and the recomputed list alone
C32_LineAndList ==
    [][TabAccepts =>
          /\ cmdBuffer' = AcceptedLine
          /\ currentSuggestions' = GetCompletions(history, env, cmdBuffer')]_vars

====
